---- MODULE Spec2Model ----
(***************************************************************************)
(* The room-based chat router of the ChatPay server: connections, rooms,   *)
(* the two per-room logs, the per-identity agent handles with their        *)
(* in-flight invocations, and the per-room poker ledger.                   *)
(*                                                                         *)
(* One action is one run of a handler on the single event loop.  A promise *)
(* rejection that is raised before the first suspension of processMessage  *)
(* is handled by its .catch in the microtask that follows the handler, so  *)
(* it belongs to the action of the handler.                                *)
(***************************************************************************)
EXTENDS Integers, Sequences, FiniteSets, TLC

(***************************************************************************)
(* Bounds of the model.                                                    *)
(***************************************************************************)
\* messages logged in all rooms together that the router specification explores
MaxLog == 4
\* messages logged in all rooms together that the agent specification explores
MaxAgentLog == 5
\* number of agent dispatches (mention chats) the router specification explores
MaxDispatches == 2
\* number of text parts one agent invocation may deliver
MaxParts == 1
\* messages logged in both rooms together while the sender of a mention moves on
MaxRoamLog == 6
\* messages logged in the room that the chat window specification explores
MaxHistoryLog == 55
\* number of text parts, one action directive each, in one agent response of the
\* ledger specification
MaxActions == 3
\* the same, in the payments specification
MaxPayActions == 5

\* the sockets the model follows
Conns == {"c1", "c2"}
\* the room ids generateRoomId hands out, in the order it hands them out
RoomIds == <<"r1", "r2">>
RoomNames == {"Poker Night"}
Users == {"Alice", "Bob"}
\* the keys of the agents table
ApiKeys == {"main", "sunny", "host"}
\* an identity tag a connect message may carry that the agents table does not hold;
\* the connect handler stores message.apiKey as it arrives
UnknownKeys == {"alyssa"}

\* JavaScript null / undefined
None == "null"

VARIABLES
  clients,          \* socket -> Client record, with the socket's readyState
  rooms,            \* roomId -> RoomState, for the rooms created so far
  roomMessages,     \* roomId -> replay log
  roomChatHistory,  \* roomId -> bounded chat window
  isRunning,        \* apiKey -> busy flag of that identity's LocusAgent
  inflight,         \* the agent invocations suspended in query()
  dispatches,       \* history: one record per dispatch (mention chat)
  lastResult,       \* the last poker helper call and its result
  last,             \* the event the last handler ran for
  sent              \* what the last handler sent: socket -> the messages sent to it,
                    \* roomId -> the messages broadcast to the room

vars == <<clients, rooms, roomMessages, roomChatHistory, isRunning, inflight,
          dispatches, lastResult, last, sent>>

(***************************************************************************)
(* Sequence helpers.                                                       *)
(***************************************************************************)
RECURSIVE SumAmounts(_)
\* entries.reduce((sum, e) => sum + e.amount, 0)
SumAmounts(entries) ==
  IF entries = <<>> THEN 0
  ELSE SumAmounts(SubSeq(entries, 1, Len(entries) - 1)) + entries[Len(entries)].amount

\* s.slice(-n)
LastN(s, n) == IF Len(s) <= n THEN s ELSE SubSeq(s, Len(s) - n + 1, Len(s))

\* text.includes(token), a text being a sequence of tokens
Includes(text, token) == \E i \in 1..Len(text) : text[i] = token

IsPrefix(s, t) == Len(s) <= Len(t) /\ SubSeq(t, 1, Len(s)) = s

(***************************************************************************)
(* Server messages.                                                        *)
(***************************************************************************)
SystemMessage(roomId, text) == [type |-> "system", roomId |-> roomId, text |-> text]

ChatMessage(roomId, text, username, timestamp) ==
  [type |-> "chat", roomId |-> roomId, text |-> text, username |-> username,
   timestamp |-> timestamp]

AgentTypingMessage(roomId, isTyping) ==
  [type |-> "agent_typing", roomId |-> roomId, isTyping |-> isTyping]

AgentProgressMessage(roomId, text, toolName, elapsed) ==
  [type |-> "agent_progress", roomId |-> roomId, text |-> text,
   tool_name |-> toolName, elapsed_time |-> elapsed]

AgentMessage(roomId, text, toolsUsed) ==
  [type |-> "agent", roomId |-> roomId, text |-> text, tool_uses |-> toolsUsed]

UserListMessage(users) == [type |-> "user_list", users |-> users]

RoomListMessage(rs) ==
  [type |-> "room_list",
   rooms |-> [i \in 1..Cardinality(DOMAIN rs) |->
                [roomId |-> RoomIds[i], roomName |-> rs[RoomIds[i]].roomName,
                 mode |-> rs[RoomIds[i]].mode,
                 participantCount |-> Len(rs[RoomIds[i]].participants)]]]

(***************************************************************************)
(* Sending.  An output maps each socket to the messages sent to it, in     *)
(* order, and each room id to the messages broadcast to that room; the     *)
(* order between different sockets is not observable.                      *)
(***************************************************************************)
AllRoomIds == {RoomIds[i] : i \in 1..Len(RoomIds)}

Targets == Conns \cup AllRoomIds

Nothing == [x \in Targets |-> <<>>]

Then(out1, out2) == [x \in Targets |-> out1[x] \o out2[x]]

\* ws.send(JSON.stringify(message))
SendTo(ws, message) == [x \in Targets |-> IF x = ws THEN <<message>> ELSE <<>>]

\* mutant: the replay sends the newest entry first
SendAllTo_NewestFirst(ws, messages) ==
  [x \in Targets |->
     IF x = ws THEN [i \in 1..Len(messages) |-> messages[Len(messages) + 1 - i]] ELSE <<>>]

\* messages.forEach(msg => ws.send(JSON.stringify(msg)))
SendAllTo(ws, messages) == [x \in Targets |-> IF x = ws THEN messages ELSE <<>>]

\* mutant: the broadcast reaches every open connection, whatever its room
broadcastToRoom_AllOpen(cl, roomId, message, excludeWs) ==
  [x \in Targets |->
     IF x = roomId THEN <<message>>
     ELSE IF x \in Conns /\ x /= excludeWs /\ cl[x].readyState = "OPEN"
     THEN <<message>> ELSE <<>>]

\* clients.forEach: send to the OPEN sockets of the room, except excludeWs
broadcastToRoom(cl, roomId, message, excludeWs) ==
  [x \in Targets |->
     IF x = roomId THEN <<message>>
     ELSE IF x \in Conns /\ x /= excludeWs /\ cl[x].readyState = "OPEN"
             /\ cl[x].currentRoom = roomId
     THEN <<message>> ELSE <<>>]

RECURSIVE Usernames(_)
\* room.participants.map(p => p.username)
Usernames(ps) ==
  IF ps = <<>> THEN <<>> ELSE <<ps[1].username>> \o Usernames(Tail(ps))

\* mutant: no user list is sent
sendUserListToRoom_Skipped(cl, rs, roomId) == Nothing

sendUserListToRoom(cl, rs, roomId) ==
  IF roomId \notin DOMAIN rs THEN Nothing
  ELSE broadcastToRoom(cl, roomId, UserListMessage(Usernames(rs[roomId].participants)), None)

\* sendRoomList(ws)
sendRoomList(rs, ws) == SendTo(ws, RoomListMessage(rs))

\* sendRoomListToAll(): every socket of the clients map that is OPEN
sendRoomListToAll(cl, rs) ==
  [x \in Targets |->
     IF x \in Conns /\ cl[x].readyState = "OPEN" THEN <<RoomListMessage(rs)>> ELSE <<>>]

\* mutant: nobody is sent the room list
sendRoomListToEach_Nobody(cl, rs) == Nothing

\* clients.forEach((_, clientWs) => sendRoomList(clientWs)): every socket of the map
sendRoomListToEach(cl, rs) ==
  [x \in Targets |->
     IF x \in Conns /\ cl[x].readyState \in {"OPEN", "CLOSING"}
     THEN <<RoomListMessage(rs)>> ELSE <<>>]

(***************************************************************************)
(* State after construction.                                               *)
(***************************************************************************)
\* a socket that has not connected yet: not in the clients map
NoClient ==
  [readyState |-> "NONE", apiKey |-> "main", currentRoom |-> None,
   username |-> None, wallet |-> None]

\* a socket whose close handler has run: deleted from the clients map
ClosedClient ==
  [readyState |-> "CLOSED", apiKey |-> "main", currentRoom |-> None,
   username |-> None, wallet |-> None]

\* the Client record the connection handler builds
NewClient ==
  [readyState |-> "OPEN", apiKey |-> "main", currentRoom |-> None,
   username |-> None, wallet |-> None]

NoSession == [active |-> FALSE, host |-> None, buyIns |-> <<>>, cashOuts |-> <<>>]

\* no poker helper has been called yet
NoResult == [fn |-> "none"]

Init ==
  /\ clients = [c \in Conns |-> NoClient]
  /\ rooms = <<>>
  /\ roomMessages = <<>>
  /\ roomChatHistory = <<>>
  /\ isRunning = [k \in ApiKeys |-> FALSE]
  /\ inflight = {}
  /\ dispatches = <<>>
  /\ lastResult = NoResult
  /\ last = [op |-> "init"]
  /\ sent = Nothing

\* participants.filter(p => p.username !== username)
RECURSIVE WithoutUser(_, _)
WithoutUser(ps, username) ==
  IF ps = <<>> THEN <<>>
  ELSE (IF ps[1].username /= username THEN <<ps[1]>> ELSE <<>>)
         \o WithoutUser(Tail(ps), username)

\* mutant: the message is put at the front of the replay log
PushMessage_AtFront(rm, roomId, message) ==
  IF roomId \in DOMAIN rm THEN [rm EXCEPT ![roomId] = <<message>> \o @] ELSE rm

\* roomMessages.get(roomId)?.push(message)
PushMessage(rm, roomId, message) ==
  IF roomId \in DOMAIN rm THEN [rm EXCEPT ![roomId] = Append(@, message)] ELSE rm

(***************************************************************************)
(* Connection lifecycle.                                                   *)
(***************************************************************************)
\* wss.on('connection'): a new socket is registered with the default identity
Connection(ws) ==
  /\ last' = [op |-> "connection", ws |-> ws]
  /\ clients[ws].readyState = "NONE"
  /\ clients' = [clients EXCEPT ![ws] = NewClient]
  /\ sent' = Nothing
  /\ UNCHANGED <<rooms, roomMessages, roomChatHistory, isRunning, inflight,
                 dispatches, lastResult>>

\* mutant: the error handler announces the departure as well
SocketError_Announces(ws) ==
  /\ last' = [op |-> "error", ws |-> ws]
  /\ clients[ws].readyState = "OPEN"
  /\ clients' = [clients EXCEPT ![ws].readyState = "CLOSING"]
  /\ LET roomId == clients[ws].currentRoom
         systemMessage == SystemMessage(roomId, <<clients[ws].username, "left the room">>)
     IN IF roomId \in DOMAIN rooms
        THEN /\ roomMessages' = PushMessage(roomMessages, roomId, systemMessage)
             /\ sent' = broadcastToRoom(clients', roomId, systemMessage, None)
        ELSE /\ sent' = Nothing
             /\ UNCHANGED roomMessages
  /\ UNCHANGED <<rooms, roomChatHistory, isRunning, inflight, dispatches, lastResult>>

\* the transport fails or starts closing: the socket leaves OPEN; the error
\* handler only logs, and the close event follows later
SocketError(ws) ==
  /\ last' = [op |-> "error", ws |-> ws]
  /\ clients[ws].readyState = "OPEN"
  /\ clients' = [clients EXCEPT ![ws].readyState = "CLOSING"]
  /\ sent' = Nothing
  /\ UNCHANGED <<rooms, roomMessages, roomChatHistory, isRunning, inflight,
                 dispatches, lastResult>>

\* mutant: the close event is not emitted for a socket that has errored
CloseEmitted_CleanOnly(client) == client.readyState = "OPEN"

\* the socket emits 'close' once, from OPEN or after an error
CloseEmitted(client) == client.readyState \in {"OPEN", "CLOSING"}

\* ws.on('close')
Close(ws) ==
  /\ last' = [op |-> "close", ws |-> ws, roomId |-> clients[ws].currentRoom,
              username |-> clients[ws].username, errored |-> clients[ws].readyState = "CLOSING"]
  /\ CloseEmitted(clients[ws])
  /\ LET username == clients[ws].username
         roomId == clients[ws].currentRoom
         cl == [clients EXCEPT ![ws] = ClosedClient]
     IN /\ clients' = cl
        /\ IF username /= None /\ roomId /= None /\ roomId \in DOMAIN rooms
           THEN LET rs == [rooms EXCEPT ![roomId].participants = WithoutUser(@, username)]
                    systemMessage == SystemMessage(roomId, <<username, "left the room">>)
                IN /\ rooms' = rs
                   /\ roomMessages' = PushMessage(roomMessages, roomId, systemMessage)
                   /\ sent' = Then(broadcastToRoom(cl, roomId, systemMessage, None),
                                Then(sendUserListToRoom(cl, rs, roomId),
                                     sendRoomListToAll(cl, rs)))
           ELSE /\ sent' = Nothing
                /\ UNCHANGED <<rooms, roomMessages>>
  /\ UNCHANGED <<roomChatHistory, isRunning, inflight, dispatches, lastResult>>

(***************************************************************************)
(* Inbound messages: connect, create_room, join_room.                      *)
(***************************************************************************)
\* mutant: a message that does not parse ends the connection
Malformed_Terminates(ws) ==
  /\ last' = [op |-> "malformed", ws |-> ws]
  /\ clients[ws].readyState = "OPEN"
  /\ clients' = [clients EXCEPT ![ws].readyState = "CLOSING"]
  /\ sent' = Nothing
  /\ UNCHANGED <<rooms, roomMessages, roomChatHistory, isRunning, inflight,
                 dispatches, lastResult>>

\* JSON.parse(data.toString()) throws: the handler's catch logs the error
Malformed(ws) ==
  /\ last' = [op |-> "malformed", ws |-> ws]
  /\ clients[ws].readyState = "OPEN"
  /\ sent' = Nothing
  /\ UNCHANGED <<clients, rooms, roomMessages, roomChatHistory, isRunning, inflight,
                 dispatches, lastResult>>

\* message.type === 'connect'
Connect(ws, apiKey) ==
  /\ last' = [op |-> "connect", ws |-> ws, apiKey |-> apiKey]
  /\ clients[ws].readyState = "OPEN"
  /\ clients' = [clients EXCEPT ![ws].apiKey = apiKey]
  /\ sent' = sendRoomList(rooms, ws)
  /\ UNCHANGED <<rooms, roomMessages, roomChatHistory, isRunning, inflight,
                 dispatches, lastResult>>

\* generateRoomId(): 8 random bytes; the model hands out the next unused id
generateRoomId(rs) == RoomIds[Cardinality(DOMAIN rs) + 1]

\* extends a map by one key
MapSet(m, k, v) == [x \in DOMAIN m \cup {k} |-> IF x = k THEN v ELSE m[x]]

\* message.type === 'create_room'
CreateRoom(ws, roomName, mode) ==
  /\ last' = [op |-> "create_room", ws |-> ws, roomName |-> roomName, mode |-> mode]
  /\ clients[ws].readyState = "OPEN"
  /\ Cardinality(DOMAIN rooms) < Len(RoomIds)
  /\ LET roomId == generateRoomId(rooms)
         newRoom == [roomId |-> roomId, roomName |-> roomName, mode |-> mode,
                     participants |-> <<>>, contacts |-> <<>>,
                     pokerSession |-> NoSession]
         rs == MapSet(rooms, roomId, newRoom)
     IN /\ rooms' = rs
        /\ roomMessages' = MapSet(roomMessages, roomId, <<>>)
        /\ roomChatHistory' = MapSet(roomChatHistory, roomId, <<>>)
        /\ sent' = Then(sendRoomListToEach(clients, rs),
                        SendTo(ws, SystemMessage(roomId, <<"Room", roomName, "created. Room ID:", roomId>>)))
  /\ UNCHANGED <<clients, isRunning, inflight, dispatches, lastResult>>

\* the room-switch block of join_room: leave the old room first
LeaveOldRoom(cl, rs, rm, ws, roomId, username) ==
  LET oldRoomId == cl[ws].currentRoom
  IN IF oldRoomId /= None /\ oldRoomId /= roomId /\ oldRoomId \in DOMAIN rs
     THEN LET rs1 == [rs EXCEPT ![oldRoomId].participants = WithoutUser(@, username)]
              leaveMessage == SystemMessage(oldRoomId, <<username, "left the room">>)
          IN [rooms |-> rs1,
              roomMessages |-> PushMessage(rm, oldRoomId, leaveMessage),
              sent |-> Then(broadcastToRoom(cl, oldRoomId, leaveMessage, None),
                            sendUserListToRoom(cl, rs1, oldRoomId))]
     ELSE [rooms |-> rs, roomMessages |-> rm, sent |-> Nothing]

\* mutant: the join pushes the participant without removing the earlier entry
AddParticipant_NoFilter(ps, participant) == Append(ps, participant)

\* room.participants = room.participants.filter(...); room.participants.push(participant)
AddParticipant(ps, participant) ==
  Append(WithoutUser(ps, participant.username), participant)

\* mutant: the not-found notice goes to every open connection
RoomNotFound_ToAll(cl, ws, roomId) ==
  [x \in Targets |->
     IF x \in Conns /\ cl[x].readyState = "OPEN"
     THEN <<SystemMessage(None, <<"Room not found:", roomId>>)>> ELSE <<>>]

\* if (!room) { ws.send({type: 'system', text: `Room not found: ${message.roomId}`}); return; }
RoomNotFound(cl, ws, roomId) == SendTo(ws, SystemMessage(None, <<"Room not found:", roomId>>))

\* message.type === 'join_room'
JoinRoom(ws, roomId, username, wallet) ==
  /\ last' = [op |-> "join_room", ws |-> ws, roomId |-> roomId, username |-> username, wallet |-> wallet]
  /\ clients[ws].readyState = "OPEN"
  /\ IF roomId \notin DOMAIN rooms
     THEN /\ sent' = RoomNotFound(clients, ws, roomId)
          /\ UNCHANGED <<clients, rooms, roomMessages>>
     ELSE LET left == LeaveOldRoom(clients, rooms, roomMessages, ws, roomId, username)
              cl == [clients EXCEPT ![ws].username = username,
                                    ![ws].wallet = wallet,
                                    ![ws].currentRoom = roomId]
              participant == [username |-> username, wallet |-> wallet,
                              apiKey |-> clients[ws].apiKey]
              rs == [left.rooms EXCEPT ![roomId].participants = AddParticipant(@, participant)]
              messages == left.roomMessages[roomId]
              systemMessage == SystemMessage(roomId, <<username, "joined the room">>)
          IN /\ clients' = cl
             /\ rooms' = rs
             /\ roomMessages' = PushMessage(left.roomMessages, roomId, systemMessage)
             /\ sent' = Then(left.sent,
                        Then(SendAllTo(ws, messages),
                        Then(broadcastToRoom(cl, roomId, systemMessage, None),
                        Then(sendUserListToRoom(cl, rs, roomId),
                             sendRoomListToAll(cl, rs)))))
  /\ UNCHANGED <<roomChatHistory, isRunning, inflight, dispatches, lastResult>>

(***************************************************************************)
(* Number formatting and parsing.  A text is a sequence of tokens; a       *)
(* number is printed as its sign and decimal digits, one token each.       *)
(***************************************************************************)
Digits == <<"0", "1", "2", "3", "4", "5", "6", "7", "8", "9">>

RECURSIVE NatToStr(_)
NatToStr(n) ==
  IF n < 10 THEN <<Digits[n + 1]>> ELSE NatToStr(n \div 10) \o <<Digits[(n % 10) + 1]>>

\* `${n}` for an integer n
NumToStr(n) == IF n < 0 THEN <<"-">> \o NatToStr(0 - n) ELSE NatToStr(n)

\* the amounts the agent's directives name, with the number parseFloat reads
AmountLiterals == {<<"50", 50>>, <<"100", 100>>, <<"150", 150>>}

\* parseFloat(arg), for the literals above
parseFloat(arg) == (CHOOSE l \in AmountLiterals : l[1] = arg)[2]

(***************************************************************************)
(* Poker session helpers.  Each returns the room map after the call and    *)
(* the value the helper returns.                                           *)
(***************************************************************************)
\* mutant: every buy-in makes its player the host
recordBuyIn_LatestHost(rs, roomId, player, amount) ==
  IF roomId \notin DOMAIN rs
  THEN [rooms |-> rs, text |-> <<"Room not found">>]
  ELSE LET session == [active |-> TRUE, host |-> player,
                       buyIns |-> Append(rs[roomId].pokerSession.buyIns,
                                         [player |-> player, amount |-> amount]),
                       cashOuts |-> rs[roomId].pokerSession.cashOuts]
       IN [rooms |-> [rs EXCEPT ![roomId].pokerSession = session],
           text |-> <<"Recorded:", player, "bought in for", "$">> \o NumToStr(amount)
                      \o <<". Total pot:", "$">> \o NumToStr(SumAmounts(session.buyIns))]

\* a recordBuyIn whose confirmation reports what is left in the pot after the cash-outs
recordBuyIn_NetPot(rs, roomId, player, amount) ==
  IF roomId \notin DOMAIN rs
  THEN [rooms |-> rs, text |-> <<"Room not found">>]
  ELSE LET session == IF ~rs[roomId].pokerSession.active
                      THEN [active |-> TRUE, host |-> player, buyIns |-> <<>>, cashOuts |-> <<>>]
                      ELSE rs[roomId].pokerSession
           session1 == [session EXCEPT !.buyIns = Append(@, [player |-> player, amount |-> amount])]
           totalPot == SumAmounts(session1.buyIns) - SumAmounts(session1.cashOuts)
       IN [rooms |-> [rs EXCEPT ![roomId].pokerSession = session1],
           text |-> <<"Recorded:", player, "bought in for", "$">> \o NumToStr(amount)
                      \o <<". Total pot:", "$">> \o NumToStr(totalPot)]

recordBuyIn(rs, roomId, player, amount) ==
  IF roomId \notin DOMAIN rs
  THEN [rooms |-> rs, text |-> <<"Room not found">>]
  ELSE LET session == IF ~rs[roomId].pokerSession.active
                      THEN [active |-> TRUE, host |-> player, buyIns |-> <<>>, cashOuts |-> <<>>]
                      ELSE rs[roomId].pokerSession
           session1 == [session EXCEPT !.buyIns = Append(@, [player |-> player, amount |-> amount])]
           totalPot == SumAmounts(session1.buyIns)
       IN [rooms |-> [rs EXCEPT ![roomId].pokerSession = session1],
           text |-> <<"Recorded:", player, "bought in for", "$">> \o NumToStr(amount)
                      \o <<". Total pot:", "$">> \o NumToStr(totalPot)]

\* mutant: a cash-out without a session opens one for its player
recordCashOut_CreatesSession(rs, roomId, player, amount) ==
  IF roomId \notin DOMAIN rs
  THEN [rooms |-> rs, text |-> <<"No poker session active. Start by recording a buy-in first.">>]
  ELSE [rooms |-> [rs EXCEPT ![roomId].pokerSession =
                                 [active |-> TRUE,
                                  host |-> IF @.active THEN @.host ELSE player,
                                  buyIns |-> @.buyIns,
                                  cashOuts |-> Append(@.cashOuts,
                                                      [player |-> player, amount |-> amount])]],
        text |-> <<"Recorded:", player, "cashing out", "$">> \o NumToStr(amount)]

recordCashOut(rs, roomId, player, amount) ==
  IF roomId \notin DOMAIN rs \/ ~rs[roomId].pokerSession.active
  THEN [rooms |-> rs, text |-> <<"No poker session active. Start by recording a buy-in first.">>]
  ELSE [rooms |-> [rs EXCEPT ![roomId].pokerSession.cashOuts =
                                 Append(@, [player |-> player, amount |-> amount])],
        text |-> <<"Recorded:", player, "cashing out", "$">> \o NumToStr(amount)]

RECURSIVE LedgerLines(_)
\* entries.forEach(e => ledger += `- ${e.player}: $${e.amount}\n`)
LedgerLines(entries) ==
  IF entries = <<>> THEN <<>>
  ELSE <<"-", entries[1].player, ":", "$">> \o NumToStr(entries[1].amount) \o <<"\n">>
         \o LedgerLines(Tail(entries))

\* a ledger summary that calls every ledger without a remainder balanced
getPokerLedger_NoOverpaid(rs, roomId) ==
  IF roomId \notin DOMAIN rs \/ ~rs[roomId].pokerSession.active
  THEN <<"No poker session active.">>
  ELSE LET session == rs[roomId].pokerSession
           totalBuyIns == SumAmounts(session.buyIns)
           totalCashOuts == SumAmounts(session.cashOuts)
           diff == totalBuyIns - totalCashOuts
       IN <<"**Poker Session Ledger**", "\n", "**Buy-ins:**", "\n">>
          \o LedgerLines(session.buyIns)
          \o <<"Total:", "$">> \o NumToStr(totalBuyIns) \o <<"\n", "**Cash Outs:**", "\n">>
          \o (IF Len(session.cashOuts) = 0 THEN <<"-", "None yet", "\n">>
              ELSE LedgerLines(session.cashOuts))
          \o <<"Total:", "$">> \o NumToStr(totalCashOuts) \o <<"\n">>
          \o (IF diff <= 0 THEN <<"**Balanced**", "- Ready to settle!">>
              ELSE <<"**Unbalanced**", "-", "$">> \o NumToStr(diff) \o <<"remaining in pot">>)

getPokerLedger(rs, roomId) ==
  IF roomId \notin DOMAIN rs \/ ~rs[roomId].pokerSession.active
  THEN <<"No poker session active.">>
  ELSE LET session == rs[roomId].pokerSession
           totalBuyIns == SumAmounts(session.buyIns)
           totalCashOuts == SumAmounts(session.cashOuts)
           diff == totalBuyIns - totalCashOuts
       IN <<"**Poker Session Ledger**", "\n", "**Buy-ins:**", "\n">>
          \o LedgerLines(session.buyIns)
          \o <<"Total:", "$">> \o NumToStr(totalBuyIns) \o <<"\n", "**Cash Outs:**", "\n">>
          \o (IF Len(session.cashOuts) = 0 THEN <<"-", "None yet", "\n">>
              ELSE LedgerLines(session.cashOuts))
          \o <<"Total:", "$">> \o NumToStr(totalCashOuts) \o <<"\n">>
          \o (IF diff = 0 THEN <<"**Balanced**", "- Ready to settle!">>
              ELSE IF diff > 0
                   THEN <<"**Unbalanced**", "-", "$">> \o NumToStr(diff) \o <<"remaining in pot">>
                   ELSE <<"**Over by", "$">> \o NumToStr(IF diff < 0 THEN 0 - diff ELSE diff)
                          \o <<"**", "- Cash outs exceed buy-ins!">>)

\* room.participants.find(p => p.username === player), or None
RECURSIVE FindParticipant(_, _)
FindParticipant(ps, player) ==
  IF ps = <<>> THEN [username |-> None, wallet |-> None, apiKey |-> None]
  ELSE IF ps[1].username = player THEN ps[1] ELSE FindParticipant(Tail(ps), player)

\* mutant: the payee is always the raw player name
Payments_RawNames(ps, cashOuts) ==
  [i \in 1..Len(cashOuts) |-> [to |-> cashOuts[i].player, amount |-> cashOuts[i].amount]]

\* session.cashOuts.map(co => ({to: participant?.wallet || co.player, amount}))
RECURSIVE Payments(_, _)
Payments(ps, cashOuts) ==
  IF cashOuts = <<>> THEN <<>>
  ELSE LET wallet == FindParticipant(ps, cashOuts[1].player).wallet
       IN <<[to |-> IF wallet /= None THEN wallet ELSE cashOuts[1].player,
             amount |-> cashOuts[1].amount]>>
          \o Payments(ps, Tail(cashOuts))

\* mutant: anyone may settle
IsHost_Anyone(session, requestingPlayer) == TRUE

\* the host check of settlePokerSession
IsHost(session, requestingPlayer) == session.host = requestingPlayer

\* mutant: a pot that covers the cash-outs counts as balanced
IsBalanced_Covered(totalBuyIns, totalCashOuts) == totalBuyIns >= totalCashOuts

\* the balance check of settlePokerSession
IsBalanced(totalBuyIns, totalCashOuts) == totalBuyIns = totalCashOuts

\* mutant: the difference is printed without its plus sign
DiffText_Unsigned(diff) == NumToStr(diff)

\* `${diff > 0 ? '+' : ''}${diff}`
DiffText(diff) == (IF diff > 0 THEN <<"+">> ELSE <<>>) \o NumToStr(diff)

settlePokerSession(rs, roomId, requestingPlayer) ==
  IF roomId \notin DOMAIN rs \/ ~rs[roomId].pokerSession.active
  THEN [success |-> FALSE, message |-> <<"No poker session active.">>,
        hasPayments |-> FALSE, payments |-> <<>>]
  ELSE LET session == rs[roomId].pokerSession
           totalBuyIns == SumAmounts(session.buyIns)
           totalCashOuts == SumAmounts(session.cashOuts)
       IN IF ~IsHost(session, requestingPlayer)
          THEN [success |-> FALSE,
                message |-> <<"Only", session.host, "(the host) can settle the session.">>,
                hasPayments |-> FALSE, payments |-> <<>>]
          ELSE IF ~IsBalanced(totalBuyIns, totalCashOuts)
          THEN [success |-> FALSE,
                message |-> <<"Cannot settle - amounts don't match!", "\n", "Buy-ins:", "$">>
                            \o NumToStr(totalBuyIns) \o <<"\n", "Cash outs:", "$">>
                            \o NumToStr(totalCashOuts) \o <<"\n", "Difference:", "$">>
                            \o DiffText(totalBuyIns - totalCashOuts)
                            \o <<"\n", "Please adjust the cash out amounts.">>,
                hasPayments |-> FALSE, payments |-> <<>>]
          ELSE [success |-> TRUE,
                message |-> <<"**Settlement Approved!**", "\n", "Buy-ins:", "$">>
                            \o NumToStr(totalBuyIns) \o <<"\n", "Cash outs:", "$">>
                            \o NumToStr(totalCashOuts) \o <<"\n", "Ready to pay:">>,
                hasPayments |-> TRUE,
                payments |-> Payments(rs[roomId].participants, session.cashOuts)]

(***************************************************************************)
(* Action directives in the agent's response text.                         *)
(***************************************************************************)
\* tokens that are not \w+
Punctuation == {"[ACTION:", "(", ")", ")]", ",", "\n", "\n\n", "$", "-", ":"}

RECURSIVE ArgsEnd(_, _)
\* the first token at or after j that holds a ')', or 0
ArgsEnd(text, j) ==
  IF j > Len(text) THEN 0
  ELSE IF text[j] \in {")", ")]"} THEN j ELSE ArgsEnd(text, j + 1)

\* length of the match of /\[ACTION:\s*(\w+)\(([^)]+)\)\]/ that starts at token i, or 0
MatchLen(text, i) ==
  IF i + 3 <= Len(text) /\ text[i] = "[ACTION:" /\ text[i + 1] \notin Punctuation
     /\ text[i + 2] = "("
  THEN LET j == ArgsEnd(text, i + 3)
       IN IF j > i + 3 /\ text[j] = ")]" THEN j - i + 1 ELSE 0
  ELSE 0

RECURSIVE matchAll(_, _)
\* [...text.matchAll(actionPattern)], scanning from token i
matchAll(text, i) ==
  IF i > Len(text) THEN <<>>
  ELSE LET n == MatchLen(text, i)
       IN IF n > 0 THEN <<SubSeq(text, i, i + n - 1)>> \o matchAll(text, i + n)
          ELSE matchAll(text, i + 1)

RECURSIVE SplitArgs(_)
\* argsStr.split(',').map(a => a.trim().replace(/['"]/g, '')); an argument is one token
SplitArgs(toks) ==
  IF \E k \in 1..Len(toks) : toks[k] = ","
  THEN LET k == CHOOSE k \in 1..Len(toks) : toks[k] = "," /\ \A l \in 1..(k - 1) : toks[l] /= ","
       IN <<IF k = 1 THEN "" ELSE toks[1]>> \o SplitArgs(SubSeq(toks, k + 1, Len(toks)))
  ELSE <<IF toks = <<>> THEN "" ELSE toks[1]>>

RECURSIVE PaymentLines(_)
\* payments.map(p => `- ${p.to}: $${p.amount}`).join('\n')
PaymentLines(payments) ==
  IF payments = <<>> THEN <<>>
  ELSE <<"-", payments[1].to, ":", "$">> \o NumToStr(payments[1].amount)
         \o (IF Len(payments) > 1 THEN <<"\n">> ELSE <<>>) \o PaymentLines(Tail(payments))

\* a response callback whose settle closes the session it has approved
ExecAction_SettleClears(rs, roomId, action) ==
  LET functionName == action[2]
      args == SplitArgs(SubSeq(action, 4, Len(action) - 1))
  IN IF functionName = "recordBuyIn" /\ Len(args) = 2
     THEN LET r == recordBuyIn(rs, roomId, args[1], parseFloat(args[2]))
          IN [rooms |-> r.rooms, text |-> r.text,
              call |-> [fn |-> "recordBuyIn", roomId |-> roomId, player |-> args[1],
                        amount |-> parseFloat(args[2]), value |-> r.text]]
     ELSE IF functionName = "recordCashOut" /\ Len(args) = 2
     THEN LET r == recordCashOut(rs, roomId, args[1], parseFloat(args[2]))
          IN [rooms |-> r.rooms, text |-> r.text,
              call |-> [fn |-> "recordCashOut", roomId |-> roomId, player |-> args[1],
                        amount |-> parseFloat(args[2]), value |-> r.text]]
     ELSE IF functionName = "getLedger"
     THEN [rooms |-> rs, text |-> getPokerLedger(rs, roomId),
           call |-> [fn |-> "getLedger", roomId |-> roomId, value |-> getPokerLedger(rs, roomId)]]
     ELSE IF functionName = "settle" /\ Len(args) = 1
     THEN LET settleResult == settlePokerSession(rs, roomId, args[1])
          IN [rooms |-> IF settleResult.success
                        THEN [rs EXCEPT ![roomId].pokerSession = NoSession]
                        ELSE rs,
              text |-> settleResult.message
                       \o (IF settleResult.success /\ settleResult.hasPayments
                           THEN <<"\n\n">> \o PaymentLines(settleResult.payments)
                                \o <<"\n\n", "Use Locus to send these payments.">>
                           ELSE <<>>),
              call |-> [fn |-> "settle", roomId |-> roomId, player |-> args[1],
                        value |-> settleResult]]
     ELSE [rooms |-> rs, text |-> <<>>, call |-> [fn |-> "none"]]

\* one round of the loop over the matched actions: the room map after the helper
\* call, the result text, and a record of the call
ExecAction(rs, roomId, action) ==
  LET functionName == action[2]
      args == SplitArgs(SubSeq(action, 4, Len(action) - 1))
  IN IF functionName = "recordBuyIn" /\ Len(args) = 2
     THEN LET r == recordBuyIn(rs, roomId, args[1], parseFloat(args[2]))
          IN [rooms |-> r.rooms, text |-> r.text,
              call |-> [fn |-> "recordBuyIn", roomId |-> roomId, player |-> args[1],
                        amount |-> parseFloat(args[2]), value |-> r.text]]
     ELSE IF functionName = "recordCashOut" /\ Len(args) = 2
     THEN LET r == recordCashOut(rs, roomId, args[1], parseFloat(args[2]))
          IN [rooms |-> r.rooms, text |-> r.text,
              call |-> [fn |-> "recordCashOut", roomId |-> roomId, player |-> args[1],
                        amount |-> parseFloat(args[2]), value |-> r.text]]
     ELSE IF functionName = "getLedger"
     THEN [rooms |-> rs, text |-> getPokerLedger(rs, roomId),
           call |-> [fn |-> "getLedger", roomId |-> roomId, value |-> getPokerLedger(rs, roomId)]]
     ELSE IF functionName = "settle" /\ Len(args) = 1
     THEN LET settleResult == settlePokerSession(rs, roomId, args[1])
          IN [rooms |-> rs,
              text |-> settleResult.message
                       \o (IF settleResult.success /\ settleResult.hasPayments
                           THEN <<"\n\n">> \o PaymentLines(settleResult.payments)
                                \o <<"\n\n", "Use Locus to send these payments.">>
                           ELSE <<>>),
              call |-> [fn |-> "settle", roomId |-> roomId, player |-> args[1],
                        value |-> settleResult]]
     ELSE [rooms |-> rs, text |-> <<>>, call |-> [fn |-> "none"]]

\* finalText.replace(fullMatch, result): the first occurrence only
ReplaceFirst(text, pat, rep) ==
  LET Occurs(i) == i + Len(pat) - 1 <= Len(text) /\ SubSeq(text, i, i + Len(pat) - 1) = pat
  IN IF \E i \in 1..Len(text) : Occurs(i)
     THEN LET i == CHOOSE i \in 1..Len(text) : Occurs(i) /\ \A l \in 1..(i - 1) : ~Occurs(l)
          IN SubSeq(text, 1, i - 1) \o rep \o SubSeq(text, i + Len(pat), Len(text))
     ELSE text

RECURSIVE RunActions(_, _, _, _, _)
\* for (const action of actions) { ... }
RunActions(rs, roomId, actions, finalText, call) ==
  IF actions = <<>> THEN [rooms |-> rs, text |-> finalText, call |-> call]
  ELSE LET r == ExecAction(rs, roomId, actions[1])
       IN RunActions(r.rooms, roomId, Tail(actions),
                     ReplaceFirst(finalText, actions[1], r.text),
                     IF r.call.fn = "none" THEN call ELSE r.call)

(***************************************************************************)
(* Chat and agent dispatch.                                                *)
(***************************************************************************)
\* chatHistory.push(m); if (chatHistory.length > 50) chatHistory.shift()
HistoryLimit == 50

\* mutant: a full window refuses the new message instead of evicting the oldest
PushHistory_DropsNewest(chatHistory, chatMessage) ==
  IF Len(chatHistory) >= HistoryLimit THEN chatHistory ELSE Append(chatHistory, chatMessage)

PushHistory(chatHistory, chatMessage) ==
  LET pushed == Append(chatHistory, chatMessage)
  IN IF Len(pushed) > HistoryLimit THEN Tail(pushed) ELSE pushed

\* Date.now(), read as the logical time of the room: the position the message
\* takes in the room's replay log
Now(rm, roomId) == Len(rm[roomId]) + 1

\* number of agent_typing messages with this flag that `out` broadcasts to the room
Typing(out, roomId, isTyping) ==
  Len(SelectSeq(out[roomId], LAMBDA m : m = AgentTypingMessage(roomId, isTyping)))

\* the same, counting only the messages that follow an agent_typing{isTyping: true}
TypingAfterStart(out, roomId, isTyping) ==
  LET msgs == out[roomId]
      Started(i) == \E j \in 1..(i - 1) : msgs[j] = AgentTypingMessage(roomId, TRUE)
  IN Cardinality({i \in 1..Len(msgs) : msgs[i] = AgentTypingMessage(roomId, isTyping) /\ Started(i)})

\* the callbacks' typingEnd
TypingEnd(cl, roomId) == broadcastToRoom(cl, roomId, AgentTypingMessage(roomId, FALSE), None)

\* mutant: the .catch stops the typing indicator and tells the room nothing
DispatchCatch_Silent(cl, rm, roomId, err) ==
  [roomMessages |-> rm, sent |-> TypingEnd(cl, roomId)]

\* mutant: the .catch puts err.message into the message for the room
DispatchCatch_Leaks(cl, rm, roomId, err) ==
  LET errorMessage == SystemMessage(roomId, <<"Locus agent encountered an error:">> \o err)
  IN [roomMessages |-> PushMessage(rm, roomId, errorMessage),
      sent |-> Then(TypingEnd(cl, roomId), broadcastToRoom(cl, roomId, errorMessage, None))]

\* the .catch of the dispatch: err.message goes to the server log only; the room gets
\* typingEnd, then the generic error message
DispatchCatch(cl, rm, roomId, err) ==
  LET errorMessage == SystemMessage(roomId, <<"Locus agent encountered an error">>)
  IN [roomMessages |-> PushMessage(rm, roomId, errorMessage),
      sent |-> Then(TypingEnd(cl, roomId), broadcastToRoom(cl, roomId, errorMessage, None))]

\* mutant: one busy flag shared by all identities
AlreadyProcessing_AnyBusy(running, apiKey) == \E k \in DOMAIN running : running[k]

\* mutant: processMessage without its busy check
AlreadyProcessing_NoCheck(running, apiKey) == FALSE

\* if (this.isRunning) throw new Error('Agent is already processing a request')
AlreadyProcessing(running, apiKey) == running[apiKey]

\* building the system prompt reads roomContext.pokerSession.cashOutLedger, which a
\* PokerSession does not have: with a session in the room the call throws
ContextThrows(room) == room.pokerSession.active

\* const selectedAgent = agents[client.apiKey]: undefined for a key the table lacks
SelectedAgent(apiKey) == apiKey \in ApiKeys

\* the message of the error processMessage throws before its first await
StartError(start) ==
  IF start = "rejected" THEN <<"Agent is already processing a request">>
  ELSE <<"Cannot read properties of undefined (reading 'map')">>

\* how the dispatch leaves its synchronous part: "crashed" when the call on an
\* undefined agent throws a TypeError, which the handler's own try/catch logs
StartOf(running, apiKey, room) ==
  IF ~SelectedAgent(apiKey) THEN "crashed"
  ELSE IF AlreadyProcessing(running, apiKey) THEN "rejected"
  ELSE IF ContextThrows(room) THEN "failed"
  ELSE "inflight"

\* mutant: a dropped chat still shows the agent typing to every open connection
ChatDropped_Typing(cl, ws) ==
  [x \in Targets |->
     IF x \in Conns /\ cl[x].readyState = "OPEN"
     THEN <<AgentTypingMessage(None, TRUE)>> ELSE <<>>]

\* log.error(...); return;  -- the chat handler's early returns send nothing
ChatDropped(cl, ws) == Nothing

\* mutant: the chat is not echoed to its sender
ChatExclude_Sender(ws) == ws

\* broadcastToRoom(roomId, chatMessage): no excludeWs argument
ChatExclude(ws) == None

\* message.type === 'chat'
Chat(ws, text) ==
  /\ last' = [op |-> "chat", ws |-> ws, text |-> text]
  /\ clients[ws].readyState = "OPEN"
  /\ IF clients[ws].username = None \/ clients[ws].currentRoom = None
        \/ clients[ws].currentRoom \notin DOMAIN rooms
     THEN /\ sent' = ChatDropped(clients, ws)
          /\ UNCHANGED <<roomMessages, roomChatHistory, isRunning, inflight, dispatches>>
     ELSE LET roomId == clients[ws].currentRoom
              apiKey == clients[ws].apiKey
              chatMessage == ChatMessage(roomId, text, clients[ws].username, Now(roomMessages, roomId))
              rm == PushMessage(roomMessages, roomId, chatMessage)
              out == broadcastToRoom(clients, roomId, chatMessage, ChatExclude(ws))
              typingStart == broadcastToRoom(clients, roomId, AgentTypingMessage(roomId, TRUE), None)
              start == StartOf(isRunning, apiKey, rooms[roomId])
              id == Len(dispatches) + 1
              caught == DispatchCatch(clients, rm, roomId, StartError(start))
          IN /\ roomChatHistory' = [roomChatHistory EXCEPT ![roomId] = PushHistory(@, chatMessage)]
             /\ IF ~Includes(text, "@locus")
                THEN /\ roomMessages' = rm
                     /\ sent' = out
                     /\ UNCHANGED <<isRunning, inflight, dispatches>>
                ELSE /\ IF start = "inflight"
                        THEN /\ isRunning' = [isRunning EXCEPT ![apiKey] = TRUE]
                             /\ inflight' = inflight \cup
                                  {[id |-> id, apiKey |-> apiKey, roomId |-> roomId,
                                    toolsUsed |-> <<>>, responseParts |-> <<>>]}
                             /\ roomMessages' = rm
                             /\ sent' = Then(out, typingStart)
                        ELSE IF start = "crashed"
                        THEN /\ roomMessages' = rm
                             /\ sent' = Then(out, typingStart)
                             /\ UNCHANGED <<isRunning, inflight>>
                        ELSE /\ roomMessages' = caught.roomMessages
                             /\ sent' = Then(out, Then(typingStart, caught.sent))
                             /\ UNCHANGED <<isRunning, inflight>>
                     /\ dispatches' = Append(dispatches,
                          [id |-> id, ws |-> ws, username |-> clients[ws].username,
                           apiKey |-> apiKey, roomId |-> roomId, status |-> start,
                           typingOn |-> Typing(sent', roomId, TRUE),
                           typingOff |-> TypingAfterStart(sent', roomId, FALSE)])
  /\ UNCHANGED <<clients, rooms, lastResult>>

\* s without the first occurrence of token
RemoveFirst(s, token) ==
  IF \E i \in 1..Len(s) : s[i] = token
  THEN LET i == CHOOSE i \in 1..Len(s) : s[i] = token /\ \A l \in 1..(i - 1) : s[l] /= token
       IN SubSeq(s, 1, i - 1) \o SubSeq(s, i + 1, Len(s))
  ELSE s

\* a progress callback that broadcasts the event without logging it
onProgress_NotLogged(cl, rm, roomId, toolName, elapsed) ==
  LET progressMessage ==
        AgentProgressMessage(roomId,
          <<"Using">> \o RemoveFirst(RemoveFirst(toolName, "mcp__locus__"), "mcp__sessionpay__")
            \o <<"...">>,
          toolName, elapsed)
  IN [roomMessages |-> rm,
      sent |-> broadcastToRoom(cl, roomId, progressMessage, None)]

\* the progress callback
onProgress(cl, rm, roomId, toolName, elapsed) ==
  LET progressMessage ==
        AgentProgressMessage(roomId,
          <<"Using">> \o RemoveFirst(RemoveFirst(toolName, "mcp__locus__"), "mcp__sessionpay__")
            \o <<"...">>,
          toolName, elapsed)
  IN [roomMessages |-> PushMessage(rm, roomId, progressMessage),
      sent |-> broadcastToRoom(cl, roomId, progressMessage, None)]

\* an invocation whose callbacks look up the room of the sender when they run
RoomOf_SenderNow(inv) ==
  LET now == clients[dispatches[inv.id].ws].currentRoom
  IN IF now \in DOMAIN rooms THEN now ELSE inv.roomId

\* const roomId = client.currentRoom: the callbacks of an invocation close over the
\* room in which its chat message was received
RoomOf(inv) == inv.roomId

\* the stream yields a message of type tool_progress
ToolProgress(inv, toolName, elapsed) ==
  /\ last' = [op |-> "tool_progress", id |-> inv.id, toolName |-> toolName]
  /\ inv \in inflight
  /\ LET p == onProgress(clients, roomMessages, RoomOf(inv), toolName, elapsed)
         tools == IF Includes(inv.toolsUsed, toolName) THEN inv.toolsUsed
                  ELSE Append(inv.toolsUsed, toolName)
     IN /\ roomMessages' = p.roomMessages
        /\ sent' = p.sent
        /\ inflight' = (inflight \ {inv}) \cup {[inv EXCEPT !.toolsUsed = tools]}
  /\ UNCHANGED <<clients, rooms, roomChatHistory, isRunning, dispatches, lastResult>>

RECURSIVE ToolUses(_, _, _, _, _)
\* for (const tool of toolBlocks) { if (!toolsUsed.includes(name)) {push; onProgress(name, 0)} }
ToolUses(cl, rm, roomId, toolsUsed, toolBlocks) ==
  IF toolBlocks = <<>> THEN [roomMessages |-> rm, sent |-> Nothing, toolsUsed |-> toolsUsed]
  ELSE IF Includes(toolsUsed, toolBlocks[1])
  THEN ToolUses(cl, rm, roomId, toolsUsed, Tail(toolBlocks))
  ELSE LET p == onProgress(cl, rm, roomId, toolBlocks[1], 0)
           rest == ToolUses(cl, p.roomMessages, roomId, Append(toolsUsed, toolBlocks[1]),
                            Tail(toolBlocks))
       IN [roomMessages |-> rest.roomMessages, sent |-> Then(p.sent, rest.sent),
           toolsUsed |-> rest.toolsUsed]

\* the stream yields a message of type assistant: text blocks and tool_use blocks
Assistant(inv, text, toolBlocks) ==
  /\ last' = [op |-> "assistant", id |-> inv.id, text |-> text, toolBlocks |-> toolBlocks]
  /\ inv \in inflight
  /\ LET parts == IF text /= <<>> THEN Append(inv.responseParts, text) ELSE inv.responseParts
         u == ToolUses(clients, roomMessages, RoomOf(inv), inv.toolsUsed, toolBlocks)
     IN /\ roomMessages' = u.roomMessages
        /\ sent' = u.sent
        /\ inflight' = (inflight \ {inv})
                         \cup {[inv EXCEPT !.toolsUsed = u.toolsUsed, !.responseParts = parts]}
  /\ UNCHANGED <<clients, rooms, roomChatHistory, isRunning, dispatches, lastResult>>

RECURSIVE JoinParts(_)
\* responseParts.join('\n\n')
JoinParts(parts) ==
  IF parts = <<>> THEN <<>>
  ELSE IF Len(parts) = 1 THEN parts[1]
  ELSE parts[1] \o <<"\n\n">> \o JoinParts(Tail(parts))

\* mutant: processMessage without its finally
ClearRunning_Forgotten(running, apiKey) == running

\* the finally of processMessage
ClearRunning(running, apiKey) == [running EXCEPT ![apiKey] = FALSE]

\* the dispatch record of an invocation that ends with the broadcasts `out`
EndDispatch(ds, id, status, out) ==
  [ds EXCEPT ![id].status = status,
             ![id].typingOff = @ + Typing(out, ds[id].roomId, FALSE)]

\* the stream ends: the response callback runs, then the finally
AgentDone(inv) ==
  /\ last' = [op |-> "agent_done", id |-> inv.id]
  /\ inv \in inflight
  /\ LET responseText == JoinParts(inv.responseParts)
         text == IF responseText /= <<>> THEN responseText
                 ELSE <<"I processed your request but have no specific response.">>
         roomId == RoomOf(inv)
         ran == RunActions(rooms, roomId, matchAll(text, 1), text, lastResult)
         agentResponse == AgentMessage(roomId, ran.text, inv.toolsUsed)
     IN /\ rooms' = ran.rooms
        /\ lastResult' = ran.call
        /\ roomMessages' = PushMessage(roomMessages, roomId, agentResponse)
        /\ sent' = Then(TypingEnd(clients, roomId),
                        broadcastToRoom(clients, roomId, agentResponse, None))
  /\ isRunning' = ClearRunning(isRunning, inv.apiKey)
  /\ inflight' = inflight \ {inv}
  /\ dispatches' = EndDispatch(dispatches, inv.id, "done", sent')
  /\ UNCHANGED <<clients, roomChatHistory>>

\* the stream throws: catch and finally of processMessage, then the .catch of the dispatch
AgentError(inv, err) ==
  /\ last' = [op |-> "agent_error", id |-> inv.id, err |-> err]
  /\ inv \in inflight
  /\ LET caught == DispatchCatch(clients, roomMessages, RoomOf(inv), err)
     IN /\ roomMessages' = caught.roomMessages
        /\ sent' = caught.sent
  /\ isRunning' = ClearRunning(isRunning, inv.apiKey)
  /\ inflight' = inflight \ {inv}
  /\ dispatches' = EndDispatch(dispatches, inv.id, "failed", sent')
  /\ UNCHANGED <<clients, rooms, roomChatHistory, lastResult>>

(***************************************************************************)
(* Specifications.  Each explores the handlers over its own input sets.    *)
(***************************************************************************)
RECURSIVE LoggedIn(_, _)
\* number of messages in the replay logs of the first n rooms
LoggedIn(rm, n) ==
  IF n = 0 THEN 0
  ELSE LoggedIn(rm, n - 1) + (IF RoomIds[n] \in DOMAIN rm THEN Len(rm[RoomIds[n]]) ELSE 0)

\* the replay logs together stay within the explored length
WithinLog(cap) == LoggedIn(roomMessages, Len(RoomIds)) <= cap

\* the wallet each socket's join_room messages carry
JoinWallet == [c \in Conns |-> IF c = "c1" THEN "0xA" ELSE None]

\* rooms and membership: every join, switch, chat and close, no mention
RouterStep ==
  \/ \E ws \in Conns : Connection(ws)
  \/ \E ws \in Conns : SocketError(ws)
  \/ \E ws \in Conns : Close(ws) /\ WithinLog(MaxLog)'
  \/ \E ws \in Conns : Connect(ws, "main")
  \/ \E ws \in Conns : Malformed(ws)
  \/ \E ws \in Conns, roomName \in RoomNames : CreateRoom(ws, roomName, "casual")
  \/ \E ws \in Conns, roomId \in AllRoomIds, username \in Users :
        JoinRoom(ws, roomId, username, JoinWallet[ws]) /\ WithinLog(MaxLog)'
  \/ \E ws \in Conns : Chat(ws, <<"hi">>) /\ WithinLog(MaxLog)'

Next == RouterStep

Spec == Init /\ [][Next]_vars

\* agent dispatch: c1 creates the rooms; c1 joins as Alice and c2 as Bob, each once,
\* c2 under the default identity, another one, or one the agents table lacks; then
\* they chat with the mention token, and c2 may disconnect
AgentTools == {<<"mcp__locus__", "send_to_address">>}
\* messages of the errors the agent's stream throws
AgentErrors == {<<"Claude Code process exited with code 1">>, <<"Invalid API key">>}
AgentTexts == {<<"Done.">>, <<"[ACTION:", "recordBuyIn", "(", "Alice", ",", "100", ")]">>}
JoinName == [c \in Conns |-> IF c = "c1" THEN "Alice" ELSE "Bob"]
NobodyJoined == \A c \in Conns : clients[c].currentRoom = None

\* the agent specification explores MaxAgentLog logged messages and MaxDispatches dispatches
AgentBound == WithinLog(MaxAgentLog)' /\ (Len(dispatches) <= MaxDispatches)'

AgentStep ==
  \/ \E ws \in Conns : Connection(ws)
  \/ Close("c2") /\ AgentBound
  \/ \E apiKey \in {"sunny"} \cup UnknownKeys :
        clients["c2"].currentRoom = None /\ Connect("c2", apiKey)
  \/ \E roomName \in RoomNames : NobodyJoined /\ CreateRoom("c1", roomName, "poker")
  \/ \E ws \in Conns, roomId \in AllRoomIds :
        /\ clients[ws].currentRoom = None
        /\ DOMAIN rooms = AllRoomIds
        /\ JoinRoom(ws, roomId, JoinName[ws], None)
        /\ AgentBound
  \/ \E ws \in Conns : Chat(ws, <<"@locus", "help">>) /\ AgentBound
  \/ \E inv \in inflight, toolName \in AgentTools : ToolProgress(inv, toolName, 1) /\ AgentBound
  \/ \E inv \in inflight, text \in AgentTexts :
        Len(inv.responseParts) < MaxParts /\ Assistant(inv, text, <<>>)
  \/ \E inv \in inflight, toolName \in AgentTools :
        Assistant(inv, <<>>, <<toolName>>) /\ AgentBound
  \/ \E inv \in inflight : AgentDone(inv) /\ AgentBound
  \/ \E inv \in inflight, err \in AgentErrors : AgentError(inv, err) /\ AgentBound

NextAgent == AgentStep

SpecAgent == Init /\ [][NextAgent]_vars

\* the chat window: c1 creates one room, joins and chats until the window has been
\* full for a while; c2 joins once and leaves in between
HistoryStep ==
  \/ \E ws \in Conns : Connection(ws)
  \/ \E roomName \in RoomNames : rooms = <<>> /\ CreateRoom("c1", roomName, "casual")
  \/ \E ws \in Conns :
        /\ clients[ws].currentRoom = None
        /\ rooms /= <<>>
        /\ JoinRoom(ws, RoomIds[1], JoinName[ws], None)
        /\ WithinLog(MaxHistoryLog)'
  \/ Chat("c1", <<"hi">>) /\ WithinLog(MaxHistoryLog)'
  \/ Close("c2") /\ WithinLog(MaxHistoryLog)'

NextHistory == HistoryStep

SpecHistory == Init /\ [][NextHistory]_vars

\* the router while the agent works: Alice (identity main) mentions the agent once;
\* meanwhile rooms are created, Bob (identity sunny) joins, chats with or without the
\* mention token, and closes
BusyTexts == {<<"hi">>, <<"@locus", "help">>}

BusyStep ==
  \/ \E ws \in Conns : Connection(ws)
  \/ clients["c2"].currentRoom = None /\ Connect("c2", "sunny")
  \/ \E ws \in Conns, roomName \in RoomNames :
        (ws = "c1" => rooms = <<>>) /\ CreateRoom(ws, roomName, "casual")
  \/ \E ws \in Conns :
        /\ clients[ws].currentRoom = None
        /\ rooms /= <<>>
        /\ JoinRoom(ws, RoomIds[1], JoinName[ws], None)
        /\ AgentBound
  \/ dispatches = <<>> /\ Chat("c1", <<"@locus", "help">>) /\ AgentBound
  \/ \E text \in BusyTexts : Chat("c2", text) /\ AgentBound
  \/ \E inv \in inflight, text \in AgentTexts :
        Len(inv.responseParts) < MaxParts /\ Assistant(inv, text, <<>>)
  \/ \E inv \in inflight : AgentDone(inv) /\ AgentBound
  \/ Close("c2") /\ AgentBound

NextBusy == BusyStep

SpecBusy == Init /\ [][NextBusy]_vars

\* directives in the response: Alice joins a poker room and mentions the agent once;
\* each part of the response is plain text or a directive, and a directive may repeat
DirectiveParts ==
  {<<"ok">>,
   <<"[ACTION:", "recordBuyIn", "(", "Alice", ",", "100", ")]">>,
   <<"[ACTION:", "recordCashOut", "(", "Alice", ",", "100", ")]">>,
   <<"[ACTION:", "getLedger", "(", ")]">>,
   <<"[ACTION:", "settle", "(", "Alice", ")]">>}

DirectiveStep ==
  \/ Connection("c1")
  \/ \E roomName \in RoomNames : rooms = <<>> /\ CreateRoom("c1", roomName, "poker")
  \/ /\ clients["c1"].currentRoom = None
     /\ rooms /= <<>>
     /\ JoinRoom("c1", RoomIds[1], "Alice", "0xA")
  \/ dispatches = <<>> /\ Chat("c1", <<"@locus", "ledger please">>)
  \/ \E inv \in inflight, text \in DirectiveParts :
        Len(inv.responseParts) < MaxActions /\ Assistant(inv, text, <<>>)
  \/ \E inv \in inflight : AgentDone(inv)

NextDirective == DirectiveStep

SpecDirective == Init /\ [][NextDirective]_vars

\* the sender moves on: both rooms exist, Alice mentions the agent once, and while
\* the invocation is in flight either connection may join the other room or close
RoamBound == WithinLog(MaxRoamLog)'

RoamStep ==
  \/ \E ws \in Conns : Connection(ws)
  \/ \E roomName \in RoomNames : NobodyJoined /\ CreateRoom("c1", roomName, "casual")
  \/ \E ws \in Conns, roomId \in AllRoomIds :
        /\ DOMAIN rooms = AllRoomIds
        /\ clients[ws].currentRoom /= roomId
        /\ JoinRoom(ws, roomId, JoinName[ws], None)
        /\ RoamBound
  \/ dispatches = <<>> /\ Chat("c1", <<"@locus", "help">>) /\ RoamBound
  \/ \E inv \in inflight, toolName \in AgentTools : ToolProgress(inv, toolName, 1) /\ RoamBound
  \/ \E inv \in inflight :
        Len(inv.responseParts) < MaxParts /\ Assistant(inv, <<"Done.">>, <<>>)
  \/ \E inv \in inflight, toolName \in AgentTools :
        Assistant(inv, <<>>, <<toolName>>) /\ RoamBound
  \/ \E inv \in inflight : AgentDone(inv) /\ RoamBound
  \/ \E inv \in inflight : AgentError(inv, <<"Invalid API key">>) /\ RoamBound
  \/ \E ws \in Conns : Close(ws) /\ RoamBound

NextRoam == RoamStep

SpecRoam == Init /\ [][NextRoam]_vars

\* transport errors: Alice and Bob join one room and chat; a socket may error, and the
\* close event of an errored socket is eventually emitted
TransportStep ==
  \/ \E ws \in Conns : Connection(ws)
  \/ \E roomName \in RoomNames : rooms = <<>> /\ CreateRoom("c1", roomName, "casual")
  \/ \E ws \in Conns :
        /\ clients[ws].currentRoom = None
        /\ rooms /= <<>>
        /\ JoinRoom(ws, RoomIds[1], JoinName[ws], None)
  \/ \E ws \in Conns : Chat(ws, <<"hi">>) /\ WithinLog(MaxLog)'
  \/ \E ws \in Conns : SocketError(ws)
  \/ \E ws \in Conns : Close(ws)

NextTransport == TransportStep

SpecTransport ==
  /\ Init
  /\ [][NextTransport]_vars
  /\ \A ws \in Conns : WF_vars(clients[ws].readyState = "CLOSING" /\ Close(ws))

\* the poker ledger: Alice joins a poker room and mentions the agent once; each text part
\* of its response is a directive naming Alice or Bob and $50 or $100
LedgerPlayers == {"Alice", "Bob"}
LedgerAmounts == {"50", "100"}

Directives ==
  {<<"[ACTION:", fn, "(", player, ",", amount, ")]">> :
     fn \in {"recordBuyIn", "recordCashOut"}, player \in LedgerPlayers, amount \in LedgerAmounts}
  \cup {<<"[ACTION:", "settle", "(", player, ")]">> : player \in LedgerPlayers}

LedgerStep ==
  \/ Connection("c1")
  \/ \E roomName \in RoomNames : rooms = <<>> /\ CreateRoom("c1", roomName, "poker")
  \/ /\ clients["c1"].currentRoom = None
     /\ rooms /= <<>>
     /\ JoinRoom("c1", RoomIds[1], "Alice", "0xA")
  \/ dispatches = <<>> /\ Chat("c1", <<"@locus", "settle up">>)
  \/ \E inv \in inflight, text \in Directives :
        Len(inv.responseParts) < MaxActions /\ Assistant(inv, text, <<>>)
  \/ \E inv \in inflight : AgentDone(inv)

NextLedger == LedgerStep

SpecLedger == Init /\ [][NextLedger]_vars

\* the ledger summary: the directives of SpecLedger and a getLedger directive, which
\* the pattern of the response callback matches when it carries an argument
SummaryDirectives == Directives \cup {<<"[ACTION:", "getLedger", "(", "now", ")]">>}

SummaryStep ==
  \/ Connection("c1")
  \/ \E roomName \in RoomNames : rooms = <<>> /\ CreateRoom("c1", roomName, "poker")
  \/ /\ clients["c1"].currentRoom = None
     /\ rooms /= <<>>
     /\ JoinRoom("c1", RoomIds[1], "Alice", "0xA")
  \/ dispatches = <<>> /\ Chat("c1", <<"@locus", "show the ledger">>)
  \/ \E inv \in inflight, text \in SummaryDirectives :
        Len(inv.responseParts) < MaxActions /\ Assistant(inv, text, <<>>)
  \/ \E inv \in inflight : AgentDone(inv)

NextSummary == SummaryStep

SpecSummary == Init /\ [][NextSummary]_vars

\* payments: the spec's scenario.  Alice joins with a wallet and mentions the agent
\* once; Bob joins with a wallet, without one, or not at all; the directives are
\* those of a game in which both buy in for $100, Bob cashes out $150 and Alice $50,
\* each at most once in the response, in any order
PayDirectives ==
  {<<"[ACTION:", "recordBuyIn", "(", "Alice", ",", "100", ")]">>,
   <<"[ACTION:", "recordBuyIn", "(", "Bob", ",", "100", ")]">>,
   <<"[ACTION:", "recordCashOut", "(", "Bob", ",", "150", ")]">>,
   <<"[ACTION:", "recordCashOut", "(", "Alice", ",", "50", ")]">>,
   <<"[ACTION:", "settle", "(", "Alice", ")]">>}

PayStep ==
  \/ \E ws \in Conns : Connection(ws)
  \/ \E roomName \in RoomNames : rooms = <<>> /\ CreateRoom("c1", roomName, "poker")
  \/ /\ clients["c1"].currentRoom = None
     /\ rooms /= <<>>
     /\ JoinRoom("c1", RoomIds[1], "Alice", "0xA")
  \/ \E wallet \in {None, "0xB"} :
       /\ clients["c2"].currentRoom = None
       /\ rooms /= <<>>
       /\ JoinRoom("c2", RoomIds[1], "Bob", wallet)
  \/ dispatches = <<>> /\ Chat("c1", <<"@locus", "settle up">>)
  \/ \E inv \in inflight, text \in PayDirectives :
        /\ Len(inv.responseParts) < MaxPayActions
        /\ ~Includes(inv.responseParts, text)
        /\ Assistant(inv, text, <<>>)
  \/ \E inv \in inflight : AgentDone(inv)

NextPay == PayStep

SpecPay == Init /\ [][NextPay]_vars

\* the life of a poker session: Alice (identity main) and Bob (identity sunny) join
\* one poker room, before or after the session exists, and mention the agent once
\* each, so that two invocations can be in flight before the session exists; each
\* response is ledger directives; Bob may disconnect
HasDispatched(ws) == \E i \in 1..Len(dispatches) : dispatches[i].ws = ws

SessionDirectives ==
  {<<"[ACTION:", "recordBuyIn", "(", "Alice", ",", "100", ")]">>,
   <<"[ACTION:", "recordBuyIn", "(", "Bob", ",", "50", ")]">>,
   <<"[ACTION:", "recordCashOut", "(", "Bob", ",", "50", ")]">>,
   <<"[ACTION:", "settle", "(", "Alice", ")]">>}

SessionStep ==
  \/ \E ws \in Conns : Connection(ws)
  \/ clients["c2"].currentRoom = None /\ Connect("c2", "sunny")
  \/ \E roomName \in RoomNames : rooms = <<>> /\ CreateRoom("c1", roomName, "poker")
  \/ \E ws \in Conns :
        /\ rooms /= <<>>
        /\ clients[ws].currentRoom = None
        /\ JoinRoom(ws, RoomIds[1], JoinName[ws], None)
  \/ \E ws \in Conns :
        /\ ~HasDispatched(ws)
        /\ Chat(ws, <<"@locus", "deal me in">>)
  \/ \E inv \in inflight, text \in SessionDirectives :
        Len(inv.responseParts) < MaxParts /\ Assistant(inv, text, <<>>)
  \/ \E inv \in inflight : AgentDone(inv)
  \/ Close("c2")

NextSession == SessionStep

SpecSession == Init /\ [][NextSession]_vars

(***************************************************************************)
(* Claims about agent dispatch, checked under SpecAgent.                   *)
(***************************************************************************)
InFlightOf(apiKey) == {inv \in inflight : inv.apiKey = apiKey}

GenericError(roomId) == SystemMessage(roomId, <<"Locus agent encountered an error">>)

\* C1: at every moment each identity tag has at most one agent invocation in
\* flight, whatever connections and rooms use that identity
C1_SingleFlight == \A k \in ApiKeys : Cardinality(InFlightOf(k)) <= 1

\* an invocation is in flight while another connection, in another room, has
\* dispatched under the same identity
C1_Witness ==
  \E inv \in inflight : \E i \in 1..Len(dispatches) :
    /\ dispatches[i].apiKey = inv.apiKey
    /\ dispatches[i].id /= inv.id
    /\ dispatches[i].id > inv.id
    /\ dispatches[i].status = "rejected"
    /\ dispatches[i].roomId /= inv.roomId
    /\ dispatches[i].ws /= dispatches[inv.id].ws

\* C2: a dispatch issued while its identity is busy starts no invocation; the room of
\* the triggering chat gets a system message, and the triggering connection stays
\* open with its session state unchanged
C2_BusyRejected ==
  [][\A ws \in Conns :
       (/\ last'.op = "chat"
        /\ last'.ws = ws
        /\ Len(dispatches') = Len(dispatches) + 1
        /\ SelectedAgent(clients[ws].apiKey)
        /\ isRunning[clients[ws].apiKey])
       => LET roomId == clients[ws].currentRoom
          IN /\ inflight' = inflight
             /\ isRunning' = isRunning
             /\ clients' = clients
             /\ clients'[ws].readyState = "OPEN"
             /\ rooms' = rooms
             /\ Len(roomMessages'[roomId]) = Len(roomMessages[roomId]) + 2
             /\ roomMessages'[roomId][Len(roomMessages'[roomId])] = GenericError(roomId)
             /\ sent'[roomId][Len(sent'[roomId])] = GenericError(roomId)
             /\ sent'[ws][Len(sent'[ws])] = GenericError(roomId)]_vars

\* a dispatch was just rejected in the room where the invocation of its identity is
\* in flight
C2_Witness ==
  /\ last.op = "chat"
  /\ dispatches /= <<>>
  /\ LET d == dispatches[Len(dispatches)]
     IN /\ d.status = "rejected"
        /\ d.ws = last.ws
        /\ \E inv \in inflight : inv.apiKey = d.apiKey /\ inv.roomId = d.roomId

\* C3: every dispatch that emits agent_typing{isTyping: true} to its room emits it
\* once, and exactly one agent_typing{isTyping: false} follows it once the dispatch
\* has ended (success, agent error, busy rejection, failed start), none before
C3_TypingPaired ==
  \A i \in 1..Len(dispatches) :
    LET d == dispatches[i]
    IN /\ d.typingOn = 1
       /\ d.status = "inflight" => d.typingOff = 0 /\ (\E inv \in inflight : inv.id = d.id)
       /\ d.status /= "inflight" => d.typingOff = 1 /\ ~(\E inv \in inflight : inv.id = d.id)

\* C4: when an invocation ends, by completion or by an agent error, the busy flag of
\* its identity is clear, and a dispatch for an identity with no invocation in flight
\* is not rejected as busy
C4_FlagCleared ==
  [][/\ \A inv \in inflight :
          (~\E inv2 \in inflight' : inv2.id = inv.id) => ~isRunning'[inv.apiKey]
     /\ (Len(dispatches') = Len(dispatches) + 1
           /\ InFlightOf(dispatches'[Len(dispatches')].apiKey) = {})
        => dispatches'[Len(dispatches')].status /= "rejected"]_vars

\* an invocation has ended with an agent error and a later dispatch of the same
\* identity is in flight
C4_Witness ==
  \E i, j \in 1..Len(dispatches) :
    /\ i < j
    /\ dispatches[i].status = "failed"
    /\ dispatches[j].apiKey = dispatches[i].apiKey
    /\ dispatches[j].status = "inflight"
(***************************************************************************)
(* Claims about joining, checked under Spec.                               *)
(***************************************************************************)
\* the entries of a participant list that carry this username
EntriesOf(ps, username) == SelectSeq(ps, LAMBDA p : p.username = username)

\* the last handler was a join_room that found its room
JoinedNow == last.op = "join_room" /\ last.roomId \in DOMAIN rooms

\* C5: after every join_room naming a room and a username, whichever connections
\* joined under that name before, the room's participant list holds exactly one entry
\* for the username, the record of this latest join; no list ever holds two
\* entries for one username
C5_OneEntryLatestJoin ==
  [][/\ JoinedNow' =>
          EntriesOf(rooms'[last'.roomId].participants, last'.username)
            = <<[username |-> last'.username, wallet |-> last'.wallet,
                 apiKey |-> clients[last'.ws].apiKey]>>
     /\ \A r \in DOMAIN rooms' : \A u \in Users :
          Len(EntriesOf(rooms'[r].participants, u)) <= 1]_vars

\* a connection has just joined a room under a username that another connection of
\* the room holds with a different wallet
C5_Witness ==
  /\ JoinedNow
  /\ \E ws \in Conns :
       /\ ws /= last.ws
       /\ clients[ws].currentRoom = last.roomId
       /\ clients[ws].username = last.username
       /\ clients[ws].wallet /= last.wallet
  /\ Len(EntriesOf(rooms[last.roomId].participants, last.username)) = 1

\* the messages of a sequence that belong to the room
OfRoom(msgs, roomId) ==
  SelectSeq(msgs, LAMBDA m : m.type \in {"system", "chat", "agent", "agent_typing", "agent_progress"}
                             /\ m.roomId = roomId)

\* C6: on a successful join_room the joining connection is sent the room's whole
\* replay log, in log order, and only then the 'joined' event and the later
\* broadcasts of the room (the user list, the room list)
C6_ReplayBeforeJoined ==
  [][JoinedNow' =>
       LET ws == last'.ws
           roomId == last'.roomId
           log == roomMessages'[roomId]
           out == sent'[ws]
           n == Len(out)
       IN /\ log = Append(roomMessages[roomId], SystemMessage(roomId, <<last'.username, "joined the room">>))
          /\ OfRoom(out, roomId) = log
          /\ n >= Len(log) + 2
          /\ SubSeq(out, n - Len(log) - 1, n - 2) = log
          /\ out[n - 1] = UserListMessage(Usernames(rooms'[roomId].participants))
          /\ out[n] = RoomListMessage(rooms')]_vars

\* a connection has just joined a room whose replay log already held a join and a
\* chat message, and was sent both before the 'joined' event
C6_Witness ==
  /\ JoinedNow
  /\ LET log == roomMessages[last.roomId]
         out == sent[last.ws]
     IN /\ Len(log) >= 3
        /\ log[1].type = "system"
        /\ log[2].type = "chat"
        /\ Len(out) >= Len(log)
        /\ SubSeq(out, 1, Len(log)) = log
(***************************************************************************)
(* Claims about the two logs of a room.                                    *)
(***************************************************************************)
\* C8: every step (join, chat, disconnect, agent callback) leaves each room's replay
\* log a prefix of the log after the step: the log grows only by appending at its
\* end and its length never decreases
C8_AppendOnly ==
  [][\A r \in DOMAIN roomMessages :
       /\ r \in DOMAIN roomMessages'
       /\ Len(roomMessages[r]) <= Len(roomMessages'[r])
       /\ IsPrefix(roomMessages[r], roomMessages'[r])]_vars

\* a replay log holds a join, a chat, an agent callback's message and a leave
C8_Witness ==
  \E r \in DOMAIN roomMessages :
    LET log == roomMessages[r]
    IN /\ \E i \in 1..Len(log) : log[i].type = "chat"
       /\ \E i \in 1..Len(log) : log[i].type \in {"agent", "agent_progress"}
       /\ \E i \in 1..Len(log) : \E u \in Users : log[i] = SystemMessage(r, <<u, "joined the room">>)
       /\ \E i \in 1..Len(log) : \E u \in Users : log[i] = SystemMessage(r, <<u, "left the room">>)
\* the chat messages of a replay log, in the order they were received
ChatsOf(log) == SelectSeq(log, LAMBDA m : m.type = "chat")

\* C7: in every reachable state each room's chat window has at most 50 entries and
\* equals the last min(n, 50) of the n chat messages accepted for the room, in
\* receipt order
C7_WindowIsLast50 ==
  \A r \in DOMAIN roomChatHistory :
    /\ Len(roomChatHistory[r]) <= 50
    /\ roomChatHistory[r] = LastN(ChatsOf(roomMessages[r]), 50)

\* a room has accepted more than 51 chat messages: its window is full and its two
\* oldest messages are gone
C7_Witness ==
  \E r \in DOMAIN roomChatHistory :
    /\ Len(ChatsOf(roomMessages[r])) > 51
    /\ Len(roomChatHistory[r]) = 50
    /\ roomChatHistory[r][1] = ChatsOf(roomMessages[r])[Len(ChatsOf(roomMessages[r])) - 49]
(***************************************************************************)
(* Claims about the poker ledger, checked under SpecLedger.                *)
(***************************************************************************)
\* the last helper call was settle, on a room that has a poker session
SettleCalled ==
  /\ lastResult.fn = "settle"
  /\ lastResult.roomId \in DOMAIN rooms
  /\ rooms[lastResult.roomId].pokerSession.active

\* sum of the session's buy-ins minus sum of its cash-outs
PotDifference(session) == SumAmounts(session.buyIns) - SumAmounts(session.cashOuts)

\* C9: with a poker session in the room, settle(requestingPlayer) succeeds if and only
\* if requestingPlayer is the session's host and the buy-ins sum to the cash-outs
C9_SettleIffHostAndBalanced ==
  SettleCalled =>
    LET session == rooms[lastResult.roomId].pokerSession
    IN lastResult.value.success
         <=> (lastResult.player = session.host /\ PotDifference(session) = 0)

\* the host has settled a session whose buy-ins and cash-outs balance
C9_Witness ==
  /\ SettleCalled
  /\ lastResult.value.success
  /\ rooms[lastResult.roomId].pokerSession.cashOuts /= <<>>

\* position of the first occurrence of a token in a text, or 0
IndexOf(text, token) ==
  IF \E i \in 1..Len(text) : text[i] = token
  THEN CHOOSE i \in 1..Len(text) : text[i] = token /\ \A l \in 1..(i - 1) : text[l] /= token
  ELSE 0

RECURSIVE ReadNat(_, _, _)
\* the number the decimal digits of text from position i spell, acc being the value
\* read so far; -1 if no digit stands at i
ReadNat(text, i, acc) ==
  IF i <= Len(text) /\ \E d \in 1..10 : Digits[d] = text[i]
  THEN ReadNat(text, i + 1, (IF acc < 0 THEN 0 ELSE acc) * 10
                             + (CHOOSE d \in 1..10 : Digits[d] = text[i]) - 1)
  ELSE acc

\* C10: when the host's settle is rejected because the amounts do not match, the
\* message reports after "Difference: $" the value sum(buy-ins) - sum(cash-outs)
\* with its sign: "+" and the digits when the pot is larger, "-" and the digits when
\* the cash-outs are
C10_DifferenceReported ==
  (SettleCalled /\ lastResult.player = rooms[lastResult.roomId].pokerSession.host
     /\ PotDifference(rooms[lastResult.roomId].pokerSession) /= 0) =>
    LET diff == PotDifference(rooms[lastResult.roomId].pokerSession)
        message == lastResult.value.message
        k == IndexOf(message, "Difference:")
    IN /\ ~lastResult.value.success
       /\ k > 0
       /\ k + 3 <= Len(message)
       /\ message[k + 1] = "$"
       /\ message[k + 2] = (IF diff > 0 THEN "+" ELSE "-")
       /\ ReadNat(message, k + 3, -1) = (IF diff > 0 THEN diff ELSE 0 - diff)

\* the host settles after a single buy-in of $100 and no cash-out: the message reports +100
C10_Witness ==
  /\ SettleCalled
  /\ rooms[lastResult.roomId].pokerSession.buyIns = <<[player |-> "Alice", amount |-> 100]>>
  /\ rooms[lastResult.roomId].pokerSession.cashOuts = <<>>
  /\ lastResult.player = "Alice"
  /\ LET message == lastResult.value.message
         k == IndexOf(message, "Difference:")
     IN k > 0 /\ SubSeq(message, k + 1, k + 5) = <<"$", "+", "1", "0", "0">>

\* C11: settle requested by a player other than the session's host fails with the
\* message naming the host, whether the ledger is balanced or not, and returns no
\* payments
C11_NotHostRejected ==
  (SettleCalled /\ lastResult.player /= rooms[lastResult.roomId].pokerSession.host) =>
    /\ ~lastResult.value.success
    /\ lastResult.value.message
         = <<"Only", rooms[lastResult.roomId].pokerSession.host,
             "(the host) can settle the session.">>
    /\ ~lastResult.value.hasPayments
    /\ lastResult.value.payments = <<>>

\* Bob, who is not the host, has asked to settle a balanced ledger with a cash-out
C11_Witness ==
  /\ SettleCalled
  /\ rooms[lastResult.roomId].pokerSession.host = "Alice"
  /\ lastResult.player = "Bob"
  /\ rooms[lastResult.roomId].pokerSession.cashOuts /= <<>>
  /\ PotDifference(rooms[lastResult.roomId].pokerSession) = 0
  /\ ~lastResult.value.success

\* the wallet the room's records know for a player, or the player's name: the
\* participant entry of that name when it has a wallet
KnownPayee(room, player) ==
  IF \E i \in 1..Len(room.participants) :
       room.participants[i].username = player /\ room.participants[i].wallet /= None
  THEN LET i == CHOOSE i \in 1..Len(room.participants) :
                  room.participants[i].username = player /\ room.participants[i].wallet /= None
       IN room.participants[i].wallet
  ELSE player

\* the response callback has just run and its last helper call was a settle that succeeded
SettledNow == last.op = "agent_done" /\ lastResult.fn = "settle" /\ lastResult.value.success

\* C12: a successful settle returns one payment per cash-out entry, in cash-out order,
\* each with the entry's amount and, as payee, the wallet the room's records know for
\* the player, or the player's name when they know none (no room has contact records)
C12_PaymentPerCashOut ==
  [][SettledNow' =>
       LET room == rooms'[lastResult'.roomId]
           cashOuts == room.pokerSession.cashOuts
           payments == lastResult'.value.payments
       IN /\ room.contacts = <<>>
          /\ lastResult'.value.hasPayments
          /\ Len(payments) = Len(cashOuts)
          /\ \A i \in 1..Len(cashOuts) :
               /\ payments[i].amount = cashOuts[i].amount
               /\ payments[i].to = KnownPayee(room, cashOuts[i].player)]_vars

\* the spec's scenario with Bob in the room without a wallet: the payments are $150
\* to the name Bob, then $50 to Alice's wallet
C12_Witness ==
  /\ SettledNow
  /\ clients["c2"].currentRoom = lastResult.roomId
  /\ lastResult.value.payments
       = <<[to |-> "Bob", amount |-> 150], [to |-> "0xA", amount |-> 50]>>

\* C13: a room has no poker session, and no ledger entry, until its first
\* recordBuyIn; that call creates the session with its player as host, and no later
\* step (buy-in, cash-out, settle, join, disconnect) changes the host
C13_HostIsFirstBuyIn ==
  [][\A r \in DOMAIN rooms' :
       LET created == r \in DOMAIN rooms
           after == rooms'[r].pokerSession
       IN /\ ~after.active => after.buyIns = <<>> /\ after.cashOuts = <<>>
          /\ after.active => after.buyIns /= <<>> /\ after.host = after.buyIns[1].player
          /\ (created /\ rooms[r].pokerSession.active) =>
               /\ after.active
               /\ after.host = rooms[r].pokerSession.host
          /\ (after.active /\ ~(created /\ rooms[r].pokerSession.active)) =>
               /\ last'.op = "agent_done"
               /\ lastResult'.fn \in {"recordBuyIn", "recordCashOut", "settle"}]_vars

\* Alice's buy-in created the session; a later response recorded a buy-in of Bob,
\* and then Bob disconnected: Alice is still the host
C13_Witness ==
  /\ last.op = "close"
  /\ \E r \in DOMAIN rooms :
       LET session == rooms[r].pokerSession
       IN /\ session.active
          /\ Len(session.buyIns) >= 2
          /\ session.host = "Alice"
          /\ session.buyIns[2].player = "Bob"

\* the text recordCashOut returns when the room has no poker session
NoActiveSession == <<"No poker session active. Start by recording a buy-in first.">>

\* the response whose callback runs in this step is recordCashOut directives only, and
\* the room it answers has no poker session
CashOutsWithoutSession(inv) ==
  /\ last'.op = "agent_done"
  /\ last'.id = inv.id
  /\ inv.responseParts /= <<>>
  /\ \A i \in 1..Len(inv.responseParts) : inv.responseParts[i][2] = "recordCashOut"
  /\ ~rooms[inv.roomId].pokerSession.active

\* C14: recordCashOut in a room with no poker session returns the no-active-session
\* text as an ordinary result (the response callback completes and the text is posted
\* to the room), creates no session and records nothing
C14_CashOutNeedsSession ==
  [][\A inv \in inflight :
       CashOutsWithoutSession(inv) =>
         /\ lastResult'.fn = "recordCashOut"
         /\ lastResult'.value = NoActiveSession
         /\ rooms' = rooms
         /\ rooms'[inv.roomId].pokerSession = NoSession
         /\ dispatches'[inv.id].status = "done"
         /\ LET posted == roomMessages'[inv.roomId][Len(roomMessages'[inv.roomId])]
            IN /\ posted.type = "agent"
               /\ Includes(posted.text, NoActiveSession[1])
               /\ ~Includes(posted.text, "Recorded:")]_vars

\* a response of two cash-out directives has been answered in a room without a session
C14_Witness ==
  /\ last.op = "agent_done"
  /\ lastResult.fn = "recordCashOut"
  /\ lastResult.value = NoActiveSession
  /\ lastResult.player = "Bob"
  /\ rooms[lastResult.roomId].pokerSession = NoSession
  /\ \E i \in 1..Len(dispatches) : dispatches[i].id = last.id /\ dispatches[i].status = "done"

\* this step is a successful join_room by ws, which was in room A, for another room
SwitchesFrom(ws, A) ==
  /\ last'.op = "join_room"
  /\ last'.ws = ws
  /\ clients[ws].currentRoom = A
  /\ A \in DOMAIN rooms
  /\ last'.roomId /= A
  /\ last'.roomId \in DOMAIN rooms

\* C15: when a connection in room A joins another room B, the participant entry it
\* held in A (the entry under the username it had) is removed from A, and the
\* departure event is logged for A and the joined event for B
C15_SwitchLeavesOldRoom ==
  [][\A ws \in Conns : \A A \in DOMAIN rooms :
       SwitchesFrom(ws, A) =>
         /\ EntriesOf(rooms'[A].participants, clients[ws].username) = <<>>
         /\ Len(roomMessages'[A]) = Len(roomMessages[A]) + 1
         /\ roomMessages'[A][Len(roomMessages'[A])].type = "system"
         /\ roomMessages'[last'.roomId][Len(roomMessages'[last'.roomId])].type = "system"]_vars

\* the same with the username kept across the switch: the case the handler covers
C15_SameNameSwitchLeaves ==
  [][\A ws \in Conns : \A A \in DOMAIN rooms :
       (SwitchesFrom(ws, A) /\ last'.username = clients[ws].username) =>
         /\ EntriesOf(rooms'[A].participants, clients[ws].username) = <<>>
         /\ roomMessages'[A] = Append(roomMessages[A],
                                      SystemMessage(A, <<clients[ws].username, "left the room">>))]_vars

(***************************************************************************)
(* Claims about delivery, checked under Spec.                              *)
(***************************************************************************)
\* what a connection was sent apart from room lists, which go to every connection
RoomScoped(msgs) == SelectSeq(msgs, LAMBDA m : m.type /= "room_list")

\* C16: the room broadcasts of a chat, close or join_room handler reach exactly the
\* open connections whose current room is the broadcast's room: such a connection gets
\* the room's broadcasts, all of them and in order; a connection in another room, in no
\* room, or not open gets none, and the handler completes all the same
C16_BroadcastToRoomMembers ==
  last.op \in {"chat", "close", "join_room"} =>
    \A x \in Conns :
      (last.op = "join_room" => x /= last.ws) =>
        RoomScoped(sent[x]) = IF /\ clients[x].readyState = "OPEN"
                                 /\ clients[x].currentRoom \in AllRoomIds
                              THEN sent[clients[x].currentRoom]
                              ELSE <<>>

\* a chat has been broadcast to its room while the other connection was in the same
\* room but no longer open: the sender got the chat, the other connection nothing
C16_Witness ==
  /\ last.op = "chat"
  /\ \E r \in DOMAIN rooms, x \in Conns :
       /\ clients[last.ws].currentRoom = r
       /\ sent[r] /= <<>>
       /\ sent[last.ws] = sent[r]
       /\ x /= last.ws
       /\ clients[x].currentRoom = r
       /\ clients[x].readyState = "CLOSING"
       /\ sent[x] = <<>>

\* this step is a chat handler that accepts the message for room r
ChatAccepted(r) ==
  /\ last'.op = "chat"
  /\ clients[last'.ws].username /= None
  /\ clients[last'.ws].currentRoom = r
  /\ r \in DOMAIN rooms

\* C17: the handler of an accepted chat appends the chat to the end of the room's log
\* and delivers it at once to every open connection of the room, the sender included,
\* so chats are logged and delivered in the order the server received them: later
\* chats come later in the log and carry later timestamps
C17_ChatsInReceiptOrder ==
  [][\A r \in DOMAIN rooms :
       ChatAccepted(r) =>
         LET chat == ChatMessage(r, last'.text, clients[last'.ws].username,
                                 Len(roomMessages[r]) + 1)
             chats == ChatsOf(roomMessages'[r])
         IN /\ roomMessages'[r] = Append(roomMessages[r], chat)
            /\ sent'[last'.ws] = <<chat>>
            /\ \A x \in Conns :
                 (clients[x].readyState = "OPEN" /\ clients[x].currentRoom = r)
                   => sent'[x] = <<chat>>
            /\ \A i, j \in 1..Len(chats) : i < j => chats[i].timestamp < chats[j].timestamp]_vars

\* Alice's chat, then Bob's, are in the room's log in that order, and Bob's chat has
\* just been delivered to both of them
C17_Witness ==
  /\ last.op = "chat"
  /\ \E r \in DOMAIN rooms :
       LET chats == ChatsOf(roomMessages[r])
       IN /\ Len(chats) = 2
          /\ chats[1].username = "Alice"
          /\ chats[2].username = "Bob"
          /\ \A x \in Conns : clients[x].currentRoom = r /\ sent[x] = <<chats[2]>>

(***************************************************************************)
(* Claims about rejected and dropped messages.                             *)
(***************************************************************************)
\* C18: a join_room that names a room the server does not have sends one system
\* 'Room not found' message to the requesting connection and to nobody else, and
\* changes nothing: connections (room, username, wallet), rooms (participants,
\* sessions), replay logs and chat windows stay as they were
C18_UnknownRoomChangesNothing ==
  [][(last'.op = "join_room" /\ last'.roomId \notin DOMAIN rooms) =>
       /\ sent'[last'.ws] = <<SystemMessage(None, <<"Room not found:", last'.roomId>>)>>
       /\ \A x \in Targets \ {last'.ws} : sent'[x] = <<>>
       /\ UNCHANGED <<clients, rooms, roomMessages, roomChatHistory,
                      isRunning, inflight, dispatches>>]_vars

\* Alice, in a room with Bob, has asked to join a room that does not exist: she got
\* the notice, Bob got nothing, and she is still in her room
C18_Witness ==
  /\ last.op = "join_room"
  /\ last.roomId \notin DOMAIN rooms
  /\ last.username /= clients[last.ws].username
  /\ \E r \in DOMAIN rooms, x \in Conns \ {last.ws} :
       /\ clients[last.ws].currentRoom = r
       /\ clients[x].currentRoom = r
       /\ clients[x].readyState = "OPEN"
       /\ sent[x] = <<>>
       /\ Len(rooms[r].participants) = 2
  /\ Len(sent[last.ws]) = 1

\* C19: a chat from a connection that has no username or no current room is dropped,
\* also when its text holds the mention token: no replay log and no chat window
\* grows, nothing is sent to any connection or room, and no dispatch starts
C19_ChatWithoutRoomDropped ==
  [][(/\ last'.op = "chat"
      /\ \/ clients[last'.ws].username = None
         \/ clients[last'.ws].currentRoom = None) =>
       /\ \A x \in Targets : sent'[x] = <<>>
       /\ UNCHANGED <<roomMessages, roomChatHistory, dispatches, inflight, isRunning,
                      rooms, clients, lastResult>>]_vars

\* a connection that has joined no room has sent a chat with the mention token while
\* the other connection is in a room: nothing was sent and no dispatch exists
C19_Witness ==
  /\ last.op = "chat"
  /\ Includes(last.text, "@locus")
  /\ clients[last.ws].username = None
  /\ clients[last.ws].currentRoom = None
  /\ \E x \in Conns \ {last.ws} :
       /\ clients[x].currentRoom \in DOMAIN rooms
       /\ clients[x].readyState = "OPEN"
       /\ clients[x].apiKey = clients[last.ws].apiKey
       /\ sent[x] = <<>>
  /\ dispatches = <<>>
  /\ inflight = {}

\* C20: a message that cannot be decoded is dropped: connections, rooms, ledgers, logs,
\* windows and dispatch state are unchanged and nothing is sent; the sender stays
\* registered and open, and the next chat, from it or from another connection in a
\* room, is accepted, logged and delivered to its sender
C20_MalformedDropped ==
  [][/\ last'.op = "malformed" =>
          /\ UNCHANGED <<clients, rooms, roomMessages, roomChatHistory, isRunning,
                         inflight, dispatches, lastResult>>
          /\ \A x \in Targets : sent'[x] = <<>>
          /\ clients'[last'.ws].readyState = "OPEN"
     /\ (/\ last.op = "malformed"
         /\ last'.op = "chat"
         /\ clients[last'.ws].currentRoom \in DOMAIN rooms) =>
          LET r == clients[last'.ws].currentRoom
          IN /\ Len(roomMessages'[r]) = Len(roomMessages[r]) + 1
             /\ roomMessages'[r][Len(roomMessages'[r])].type = "chat"
             /\ sent'[last'.ws] = <<roomMessages'[r][Len(roomMessages'[r])]>>]_vars

\* Alice, in a room with Bob, has sent a message that does not parse: both are still
\* open and in the room, and nothing was sent
C20_Witness ==
  /\ last.op = "malformed"
  /\ \E r \in DOMAIN rooms :
       /\ \A x \in Conns : clients[x].currentRoom = r /\ clients[x].readyState = "OPEN"
       /\ Len(rooms[r].participants) = 2
       /\ ChatsOf(roomMessages[r]) /= <<>>
  /\ \A x \in Targets : sent[x] = <<>>

(***************************************************************************)
(* Claims about agent failures and progress, checked under SpecAgent.      *)
(***************************************************************************)
\* dispatch i ends in this step because processMessage rejected: the identity was busy,
\* the prompt could not be built, or the agent's stream threw
FailsNow(i) ==
  /\ i \in 1..Len(dispatches')
  /\ dispatches'[i].status \in {"failed", "rejected"}
  /\ i > Len(dispatches) \/ dispatches[i].status = "inflight"

\* the message of the error that ended dispatch i in this step
ErrorOf(i) ==
  IF last'.op = "agent_error" THEN last'.err ELSE StartError(dispatches'[i].status)

\* C21: when the agent invocation of a dispatch fails, its room is sent and logs one
\* system message, the fixed text 'Locus agent encountered an error', which holds no
\* part of the error's message; no agent response is sent or logged in that step, and
\* the dispatch is over, so none follows
C21_GenericErrorOnly ==
  [][\A i \in 1..Len(dispatches') :
       FailsNow(i) =>
         LET r == dispatches'[i].roomId
             logged == SubSeq(roomMessages'[r], Len(roomMessages[r]) + 1, Len(roomMessages'[r]))
             Systems(msgs) == SelectSeq(msgs, LAMBDA m : m.type = "system")
             Agents(msgs) == SelectSeq(msgs, LAMBDA m : m.type = "agent")
         IN /\ Systems(logged) = <<GenericError(r)>>
            /\ Systems(sent'[r]) = <<GenericError(r)>>
            /\ \A k \in 1..Len(ErrorOf(i)) : ~Includes(GenericError(r).text, ErrorOf(i)[k])
            /\ Agents(logged) = <<>>
            /\ Agents(sent'[r]) = <<>>
            /\ \A inv \in inflight' : inv.id /= i]_vars

\* the agent's stream threw with 'Invalid API key' after a tool had been announced: the
\* room's log ends with the generic message, which an open member received
C21_Witness ==
  /\ last.op = "agent_error"
  /\ last.err = <<"Invalid API key">>
  /\ dispatches[last.id].status = "failed"
  /\ LET r == dispatches[last.id].roomId
     IN /\ roomMessages[r][Len(roomMessages[r])] = GenericError(r)
        /\ \E x \in Conns : clients[x].readyState = "OPEN" /\ Includes(sent[x], GenericError(r))
        /\ \E k \in 1..Len(roomMessages[r]) : roomMessages[r][k].type = "agent_progress"

\* the agent_progress events a step sends to the room
ProgressOf(msgs) == SelectSeq(msgs, LAMBDA m : m.type = "agent_progress")

\* C22: within one invocation at most one agent_progress event is emitted per tool
\* name: a tool_progress or assistant message of the stream emits no event for a tool
\* the invocation has announced before (toolsUsed holds exactly those tools), and no
\* two events for one tool
C22_ProgressOncePerTool ==
  [][\A inv \in inflight :
       (last'.op \in {"tool_progress", "assistant"} /\ last'.id = inv.id) =>
         LET events == ProgressOf(sent'[inv.roomId])
         IN /\ \A k \in 1..Len(events) : ~Includes(inv.toolsUsed, events[k].tool_name)
            /\ \A k, l \in 1..Len(events) :
                 events[k].tool_name = events[l].tool_name => k = l]_vars

\* the part of C22 the code keeps: tool_use blocks are announced once per tool name
C22_ToolUseOncePerTool ==
  [][\A inv \in inflight :
       (last'.op = "assistant" /\ last'.id = inv.id) =>
         LET events == ProgressOf(sent'[inv.roomId])
         IN /\ \A k \in 1..Len(events) : ~Includes(inv.toolsUsed, events[k].tool_name)
            /\ \A k, l \in 1..Len(events) :
                 events[k].tool_name = events[l].tool_name => k = l]_vars

\* C23: a dispatch rejected because its identity is busy has emitted no
\* agent_typing{isTyping: true} to its room
C23_NoTypingWhenBusy ==
  \A i \in 1..Len(dispatches) : dispatches[i].status = "rejected" => dispatches[i].typingOn = 0

(***************************************************************************)
(* Claims about disconnects and room creation, checked under Spec.         *)
(***************************************************************************)
\* C24: when a connection that has joined room r closes, it leaves the registry, the
\* entries under its username leave r's participant list, one '<username> left the
\* room' event is logged and broadcast to the open members that remain, and the
\* refreshed user list follows it; when a connection that never joined closes, it
\* leaves the registry, no room or log changes and nothing is sent
C24_CloseLeavesRoom ==
  [][last'.op = "close" =>
       LET ws == last'.ws
           r == clients[ws].currentRoom
           username == clients[ws].username
           left == SystemMessage(r, <<username, "left the room">>)
       IN /\ clients' = [clients EXCEPT ![ws] = ClosedClient]
          /\ r = None =>
               /\ rooms' = rooms
               /\ roomMessages' = roomMessages
               /\ \A x \in Targets : sent'[x] = <<>>
          /\ r /= None =>
               /\ rooms' = [rooms EXCEPT ![r].participants = WithoutUser(@, username)]
               /\ EntriesOf(rooms'[r].participants, username) = <<>>
               /\ roomMessages' = [roomMessages EXCEPT ![r] = Append(@, left)]
               /\ sent'[r] = <<left, UserListMessage(Usernames(rooms'[r].participants))>>
               /\ sent'[ws] = <<>>
               /\ \A x \in Conns \ {ws} :
                    (clients[x].readyState = "OPEN" /\ clients[x].currentRoom = r)
                      => RoomScoped(sent'[x]) = sent'[r]]_vars

\* Bob has closed while Alice was in the same room: Alice received the departure
\* event and a user list that names her only
C24_Witness ==
  /\ last.op = "close"
  /\ last.roomId \in DOMAIN rooms
  /\ clients[last.ws].readyState = "CLOSED"
  /\ \E x \in Conns \ {last.ws} :
       /\ clients[x].readyState = "OPEN"
       /\ clients[x].currentRoom = last.roomId
       /\ clients[x].username /= last.username
       /\ RoomScoped(sent[x])
            = <<SystemMessage(last.roomId, <<last.username, "left the room">>),
                UserListMessage(<<clients[x].username>>)>>

\* C25: unregistering is idempotent for a socket that errors and then closes: the error
\* handler changes no server state and announces nothing, the close that follows it
\* adds at most one departure event and leaves what a close alone leaves, and no
\* handler of a closed socket runs again
C25_UnregisterOnce ==
  [][/\ last'.op = "error" =>
          /\ clients' = [clients EXCEPT ![last'.ws].readyState = "CLOSING"]
          /\ UNCHANGED <<rooms, roomMessages, roomChatHistory>>
          /\ \A x \in Targets : sent'[x] = <<>>
     /\ (last'.op = "close" /\ last'.errored) =>
          LET ws == last'.ws
              r == clients[ws].currentRoom
          IN /\ clients'[ws] = ClosedClient
             /\ \A q \in DOMAIN roomMessages :
                  /\ Len(roomMessages'[q]) <= Len(roomMessages[q]) + 1
                  /\ q /= r => roomMessages'[q] = roomMessages[q]
             /\ r /= None =>
                  /\ Len(SelectSeq(sent'[r], LAMBDA m : m.type = "system")) = 1
                  /\ EntriesOf(rooms'[r].participants, clients[ws].username) = <<>>
     /\ \A ws \in Conns :
          clients[ws].readyState = "CLOSED" => clients'[ws] = ClosedClient /\ last'.ws /= ws]_vars

\* Bob's socket errored and then closed while Alice was in the same room: the room's
\* log holds one departure event of Bob
C25_Witness ==
  /\ last.op = "close"
  /\ last.errored
  /\ last.roomId \in DOMAIN rooms
  /\ \E x \in Conns \ {last.ws} :
       clients[x].readyState = "OPEN" /\ clients[x].currentRoom = last.roomId
  /\ Len(SelectSeq(roomMessages[last.roomId],
                   LAMBDA m : m = SystemMessage(last.roomId, <<last.username, "left the room">>))) = 1

\* C26: a transport error ends like a clean close: the socket that errored is
\* eventually unregistered, and the close that unregisters it removes the entry under
\* its username, logs the departure and announces it, with the refreshed user list, to
\* the open members of its room, as the close of an open socket does
C26_ErrorEndsAsClose ==
  /\ [][(last'.op = "close" /\ last'.errored) =>
          LET ws == last'.ws
              r == clients[ws].currentRoom
              left == SystemMessage(r, <<clients[ws].username, "left the room">>)
          IN /\ clients' = [clients EXCEPT ![ws] = ClosedClient]
             /\ r = None => UNCHANGED <<rooms, roomMessages>> /\ sent' = Nothing
             /\ r /= None =>
                  /\ EntriesOf(rooms'[r].participants, clients[ws].username) = <<>>
                  /\ roomMessages'[r] = Append(roomMessages[r], left)
                  /\ \A x \in Conns \ {ws} :
                       (clients[x].readyState = "OPEN" /\ clients[x].currentRoom = r)
                         => /\ sent'[x][1] = left
                            /\ sent'[x][2] = UserListMessage(Usernames(rooms'[r].participants))]_vars
  /\ \A ws \in Conns :
       (clients[ws].readyState = "CLOSING") ~> (clients[ws].readyState = "CLOSED")

\* Alice's socket errored and was then closed while Bob was in the room: Bob was sent
\* 'Alice left the room' and the user list without her
C26_Witness ==
  /\ last.op = "close"
  /\ last.errored
  /\ last.username = "Alice"
  /\ \E r \in DOMAIN rooms :
       /\ last.roomId = r
       /\ clients["c2"].currentRoom = r
       /\ clients["c2"].readyState = "OPEN"
       /\ Len(sent["c2"]) >= 2
       /\ sent["c2"][1] = SystemMessage(r, <<"Alice", "left the room">>)
       /\ sent["c2"][2] = UserListMessage(<<"Bob">>)
       /\ ChatsOf(roomMessages[r]) /= <<>>

\* C27: create_room adds one room under an id no room had, with the requested name and
\* mode, no participant, no contact, no poker session and empty logs; the rooms that
\* existed, their logs and the connections are unchanged; every registered connection
\* is sent the new room list, and the creator alone is then sent the system message
\* that carries the new id
C27_CreateRoomFrame ==
  [][last'.op = "create_room" =>
       \E id \in DOMAIN rooms' :
         /\ id \notin DOMAIN rooms
         /\ DOMAIN rooms' = DOMAIN rooms \cup {id}
         /\ rooms'[id] = [roomId |-> id, roomName |-> last'.roomName, mode |-> last'.mode,
                          participants |-> <<>>, contacts |-> <<>>,
                          pokerSession |-> NoSession]
         /\ roomMessages'[id] = <<>>
         /\ roomChatHistory'[id] = <<>>
         /\ \A q \in DOMAIN rooms :
              /\ rooms'[q] = rooms[q]
              /\ roomMessages'[q] = roomMessages[q]
              /\ roomChatHistory'[q] = roomChatHistory[q]
         /\ clients' = clients
         /\ \A x \in Conns :
              sent'[x] = (IF clients[x].readyState \in {"OPEN", "CLOSING"}
                          THEN <<RoomListMessage(rooms')>> ELSE <<>>)
                         \o (IF x = last'.ws
                             THEN <<SystemMessage(id, <<"Room", last'.roomName,
                                                        "created. Room ID:", id>>)>>
                             ELSE <<>>)
         /\ \A q \in AllRoomIds : sent'[q] = <<>>]_vars

\* a second room has been created while the first had two members and a chat in its
\* log: the other connection was sent the room list only
C27_Witness ==
  /\ last.op = "create_room"
  /\ Cardinality(DOMAIN rooms) = 2
  /\ \E q \in DOMAIN rooms, x \in Conns \ {last.ws} :
       /\ Len(rooms[q].participants) = 2
       /\ ChatsOf(roomMessages[q]) /= <<>>
       /\ clients[x].readyState = "OPEN"
       /\ sent[x] = <<RoomListMessage(rooms)>>
       /\ Len(sent[last.ws]) = 2

(***************************************************************************)
(* Claims about the router while an invocation is in flight (SpecBusy).    *)
(***************************************************************************)
\* what a step appends to the log of room r
LoggedNow(r) ==
  IF r \in DOMAIN roomMessages
  THEN SubSeq(roomMessages'[r], Len(roomMessages[r]) + 1, Len(roomMessages'[r]))
  ELSE roomMessages'[r]

\* C28: while an invocation is in flight the router handles chat, join_room,
\* create_room and close at once: the handler has its effect in its own step, the
\* invocation stays pending, and no agent response is logged by it, so what it logs
\* and sends precedes the response; a mention by an identity with nothing in flight
\* starts that identity's own invocation beside the pending one
C28_RouterNotBlocked ==
  [][(inflight /= {} /\ last'.op \in {"chat", "join_room", "create_room", "close"}) =>
       LET ws == last'.ws
           r == clients[ws].currentRoom
       IN /\ \A inv \in inflight : inv \in inflight'
          /\ \A q \in DOMAIN roomMessages' :
               SelectSeq(LoggedNow(q), LAMBDA m : m.type = "agent") = <<>>
          /\ (last'.op = "chat" /\ r \in DOMAIN rooms) =>
               /\ LoggedNow(r) /= <<>>
               /\ LoggedNow(r)[1].type = "chat"
               /\ LoggedNow(r)[1].username = clients[ws].username
               /\ sent'[ws][1] = LoggedNow(r)[1]
               /\ (Includes(last'.text, "@locus") /\ InFlightOf(clients[ws].apiKey) = {}) =>
                    /\ dispatches'[Len(dispatches')].status = "inflight"
                    /\ Cardinality(inflight') = Cardinality(inflight) + 1
          /\ (last'.op = "join_room" /\ last'.roomId \in DOMAIN rooms) =>
               /\ clients'[ws].currentRoom = last'.roomId
               /\ LoggedNow(last'.roomId)
                    = <<SystemMessage(last'.roomId, <<last'.username, "joined the room">>)>>
          /\ last'.op = "create_room" => Cardinality(DOMAIN rooms') = Cardinality(DOMAIN rooms) + 1
          /\ last'.op = "close" => clients'[ws].readyState = "CLOSED"]_vars

\* Alice mentioned the agent, Bob joined and chatted while it worked, and the agent's
\* response came last: the log holds Alice's chat, Bob's 'joined', Bob's chat and the
\* agent message in that order
C28_Witness ==
  /\ last.op = "agent_done"
  /\ \E r \in DOMAIN rooms :
       LET log == roomMessages[r]
       IN \E i, j, k, l \in 1..Len(log) :
            /\ i < j /\ j < k /\ k < l
            /\ log[i].type = "chat" /\ log[i].username = "Alice" /\ Includes(log[i].text, "@locus")
            /\ log[j] = SystemMessage(r, <<"Bob", "joined the room">>)
            /\ log[k].type = "chat" /\ log[k].username = "Bob"
            /\ log[l].type = "agent"

(***************************************************************************)
(* Claims about directives in the response, checked under SpecDirective.   *)
(***************************************************************************)
RECURSIVE DirectiveEnd(_, _)
\* the token that closes the directive opened before j, or 0
DirectiveEnd(text, j) ==
  IF j > Len(text) \/ text[j] = "[ACTION:" THEN 0
  ELSE IF text[j] = ")]" THEN j ELSE DirectiveEnd(text, j + 1)

RECURSIVE InOrder(_, _, _, _)
\* the response read from token i on, left to right: each directive NAME(args) is
\* executed on the ledger left by the directives before it and gives way to the
\* result text of that execution; every other token is kept
InOrder(rs, roomId, text, i) ==
  IF i > Len(text) THEN [rooms |-> rs, text |-> <<>>]
  ELSE LET j == IF text[i] = "[ACTION:" THEN DirectiveEnd(text, i + 1) ELSE 0
       IN IF j > 0
          THEN LET r == ExecAction(rs, roomId, SubSeq(text, i, j))
                   rest == InOrder(r.rooms, roomId, text, j + 1)
               IN [rooms |-> rest.rooms, text |-> r.text \o rest.text]
          ELSE LET rest == InOrder(rs, roomId, text, i + 1)
               IN [rooms |-> rest.rooms, text |-> <<text[i]>> \o rest.text]

\* the text processMessage hands to the response callback
ResponseOf(inv) == JoinParts(inv.responseParts)

\* the response holds a directive without arguments
HasEmptyArgs(text) == \E i \in 1..(Len(text) - 1) : text[i] = "(" /\ text[i + 1] = ")]"

\* C29: every directive of the agent's response is executed on the room's ledger in
\* left-to-right order, and the agent message posted to the room is the response with
\* each directive replaced by the result text of its own execution
C29_DirectivesInOrder ==
  [][\A inv \in inflight :
       (last'.op = "agent_done" /\ last'.id = inv.id /\ inv.responseParts /= <<>>) =>
         LET expected == InOrder(rooms, inv.roomId, ResponseOf(inv), 1)
             posted == roomMessages'[inv.roomId][Len(roomMessages'[inv.roomId])]
         IN /\ rooms' = expected.rooms
            /\ posted.type = "agent"
            /\ posted.text = expected.text]_vars

\* the same for responses whose directives all carry an argument: the case the
\* callback's pattern matches
C29_ArgumentDirectivesInOrder ==
  [][\A inv \in inflight :
       (/\ last'.op = "agent_done" /\ last'.id = inv.id /\ inv.responseParts /= <<>>
        /\ ~HasEmptyArgs(ResponseOf(inv))) =>
         LET expected == InOrder(rooms, inv.roomId, ResponseOf(inv), 1)
             posted == roomMessages'[inv.roomId][Len(roomMessages'[inv.roomId])]
         IN /\ rooms' = expected.rooms
            /\ posted.type = "agent"
            /\ posted.text = expected.text]_vars

(***************************************************************************)
(* Claims about the room context, checked under SpecSession.               *)
(***************************************************************************)
\* C30: a dispatch in a room with an active poker session, for an identity the agents
\* table holds and that is not busy, reaches the agent: building the room context
\* from the session does not fail, and the invocation is in flight after the handler
C30_SessionContextBuilds ==
  [][\A ws \in Conns :
       (/\ last'.op = "chat"
        /\ last'.ws = ws
        /\ Len(dispatches') = Len(dispatches) + 1
        /\ rooms[clients[ws].currentRoom].pokerSession.active
        /\ SelectedAgent(clients[ws].apiKey)
        /\ ~isRunning[clients[ws].apiKey]) =>
         /\ dispatches'[Len(dispatches')].status = "inflight"
         /\ \E inv \in inflight' : inv.id = Len(dispatches') /\ inv \notin inflight]_vars

\* without a poker session in the room the context is built and the agent is reached
C30_PlainContextBuilds ==
  [][\A ws \in Conns :
       (/\ last'.op = "chat"
        /\ last'.ws = ws
        /\ Len(dispatches') = Len(dispatches) + 1
        /\ ~rooms[clients[ws].currentRoom].pokerSession.active
        /\ SelectedAgent(clients[ws].apiKey)
        /\ ~isRunning[clients[ws].apiKey]) =>
         /\ dispatches'[Len(dispatches')].status = "inflight"
         /\ \E inv \in inflight' : inv.id = Len(dispatches') /\ inv \notin inflight]_vars

(***************************************************************************)
(* Claims about the typing indicator and the room of a dispatch (SpecAgent).*)
(***************************************************************************)
\* the agent_typing events a step broadcasts to the room, in order
TypingOf(msgs) == SelectSeq(msgs, LAMBDA m : m.type = "agent_typing")

\* the invocations in flight that were triggered from room r
InFlightFrom(inv_set, r) == {inv \in inv_set : inv.roomId = r}

\* C31: whenever a step broadcasts agent_typing events to room r and an invocation
\* triggered from r is in flight after it, the last of them has isTyping true:
\* isTyping false is the room's latest typing event only when no invocation
\* triggered from r remains in flight
C31_TypingWhileInFlight ==
  [][\A r \in AllRoomIds :
       (TypingOf(sent'[r]) /= <<>> /\ InFlightFrom(inflight', r) /= {}) =>
         TypingOf(sent'[r])[Len(TypingOf(sent'[r]))].isTyping]_vars

\* the same for the steps of a room's only dispatch
C31_TypingOfOnlyDispatch ==
  [][\A r \in AllRoomIds :
       (/\ TypingOf(sent'[r]) /= <<>>
        /\ InFlightFrom(inflight', r) /= {}
        /\ Cardinality({i \in 1..Len(dispatches') : dispatches'[i].roomId = r}) <= 1) =>
         TypingOf(sent'[r])[Len(TypingOf(sent'[r]))].isTyping]_vars

(***************************************************************************)
(* Claims that relate connections and participant lists, checked under Spec.*)
(***************************************************************************)
\* C32: every open connection whose current room is r and whose username is u has a
\* participant entry named u in room r
C32_MemberHasEntry ==
  \A ws \in Conns :
    (clients[ws].readyState = "OPEN" /\ clients[ws].currentRoom \in DOMAIN rooms) =>
      EntriesOf(rooms[clients[ws].currentRoom].participants, clients[ws].username) /= <<>>

\* the part of C32 every join establishes: right after its join_room the joiner has
\* an entry under its username in its room
C32_JoinerHasEntry ==
  JoinedNow =>
    /\ clients[last.ws].currentRoom = last.roomId
    /\ clients[last.ws].username = last.username
    /\ EntriesOf(rooms[last.roomId].participants, last.username) /= <<>>

\* C33: every participant entry of a room belongs to a member: for each entry named u
\* in room r there is a connection in r under the username u (a socket that has
\* errored and whose close is still to come counts as a member here, which makes the
\* statement weaker than the claim's "open connection")
C33_EntryHasMember ==
  \A r \in DOMAIN rooms : \A k \in 1..Len(rooms[r].participants) :
    \E ws \in Conns :
      /\ clients[ws].readyState \in {"OPEN", "CLOSING"}
      /\ clients[ws].currentRoom = r
      /\ clients[ws].username = rooms[r].participants[k].username

\* the part of C33 the close handler keeps: after a close no entry of the room is
\* left under the username of the connection that closed
C33_CloseRemovesName ==
  (last.op = "close" /\ last.roomId \in DOMAIN rooms) =>
    EntriesOf(rooms[last.roomId].participants, last.username) = <<>>

(***************************************************************************)
(* Claims about who may settle and what a settle leaves behind             *)
(* (SpecLedger, SpecDirective).                                            *)
(***************************************************************************)
\* C34: a settle succeeds only in the response to a chat message whose sender's
\* display name is the session's host
C34_SettleOnlyForHostSender ==
  SettledNow =>
    dispatches[last.id].username = rooms[lastResult.roomId].pokerSession.host

\* what the code compares with the host is the name written in the directive
C34_SettleOnlyForNamedHost ==
  SettledNow =>
    lastResult.player = rooms[lastResult.roomId].pokerSession.host

\* number of places at which a token stands in a text
Occurrences(text, token) == Cardinality({i \in 1..Len(text) : text[i] = token})

\* every directive of a response is a settle
OnlySettles(text) ==
  LET actions == matchAll(text, 1)
  IN actions /= <<>> /\ \A k \in 1..Len(actions) : actions[k][2] = "settle"

\* C35: settle leaves the room as it found it.  A response that holds only settle
\* directives changes no room, and after any response that ended with a settle,
\* approved or refused, the same call on the room as it now stands returns the same
\* result and the same payments
C35_SettleKeepsSession ==
  [][/\ \A inv \in inflight :
          (last'.op = "agent_done" /\ last'.id = inv.id /\ OnlySettles(ResponseOf(inv))) =>
            rooms' = rooms
     /\ (last'.op = "agent_done" /\ lastResult'.fn = "settle") =>
          settlePokerSession(rooms', lastResult'.roomId, lastResult'.player)
            = lastResult'.value]_vars

\* a response has settled an open session twice and was refused both times with the
\* same text, and the session still holds its entries
C35_Witness ==
  /\ last.op = "agent_done"
  /\ SettleCalled
  /\ rooms[lastResult.roomId].pokerSession.buyIns /= <<>>
  /\ LET log == roomMessages[lastResult.roomId]
     IN Occurrences(log[Len(log)].text, "Cannot settle - amounts don't match!") = 2

\* an approved settle has left the session's host, buy-ins and cash-outs in place
C35_ApprovedKeepsSession ==
  SettledNow => rooms[lastResult.roomId].pokerSession.active

(***************************************************************************)
(* Claims about what the members of a room receive (SpecAgent).            *)
(***************************************************************************)
\* the logged events of room r among the messages sent to one target
LoggedEvents(msgs, r) ==
  SelectSeq(msgs, LAMBDA m : m.type \in {"system", "chat", "agent_progress", "agent"}
                             /\ m.roomId = r)

\* the connection is in room r with an open socket
OpenIn(cl, ws, r) == cl[ws].readyState = "OPEN" /\ cl[ws].currentRoom = r

\* C36: the logged events a connection receives for its room are the room's replay
\* log.  The step in which it joins r sends it the whole log of r, the joined event
\* included; every later step during which it stays in r with an open socket sends
\* it exactly what the step appends to the log of r, in log order
C36_ReceivedIsLog ==
  [][\A ws \in Conns : \A r \in DOMAIN roomMessages' :
       OpenIn(clients', ws, r) =>
         IF JoinedNow' /\ last'.ws = ws
         THEN LoggedEvents(sent'[ws], r) = roomMessages'[r]
         ELSE OpenIn(clients, ws, r) => LoggedEvents(sent'[ws], r) = LoggedNow(r)]_vars

\* a member that did not mention the agent has stayed in the room and has just
\* received the agent's answer, the newest entry of a log that also holds a chat
\* message and a progress event
C36_Witness ==
  /\ last.op = "agent_done"
  /\ \E ws \in Conns :
       LET r == clients[ws].currentRoom
       IN /\ dispatches[last.id].ws /= ws
          /\ OpenIn(clients, ws, dispatches[last.id].roomId)
          /\ LoggedEvents(sent[ws], r) = <<roomMessages[r][Len(roomMessages[r])]>>
          /\ roomMessages[r][Len(roomMessages[r])].type = "agent"
          /\ \E i \in 1..Len(roomMessages[r]) : roomMessages[r][i].type = "agent_progress"
          /\ \E i \in 1..Len(roomMessages[r]) : roomMessages[r][i].type = "chat"

(***************************************************************************)
(* Claims about the room of an invocation's events (SpecRoam).             *)
(***************************************************************************)
\* the steps in which a callback of an invocation, or the catch of its dispatch, runs
AgentOps == {"tool_progress", "assistant", "agent_done", "agent_error"}

\* the sender of the dispatch is no longer in the room of the dispatch
MovedOn(d) ==
  clients[d.ws].readyState /= "OPEN" \/ clients[d.ws].currentRoom /= d.roomId

\* C37: whatever a callback of an invocation sends (agent_typing, agent_progress,
\* agent, the error event) bears the id of the room in which the mention was
\* received and goes to the open connections that are in that room now, and to
\* nobody else, wherever the sender of the mention is by then; the final callbacks
\* always send something
C37_EventsStayInDispatchRoom ==
  [][\A inv \in inflight :
       (last'.op \in AgentOps /\ last'.id = inv.id) =>
         LET r == dispatches[inv.id].roomId
         IN /\ \A x \in Targets :
                 sent'[x] = IF x = r \/ (x \in Conns /\ OpenIn(clients, x, r))
                            THEN sent'[r] ELSE <<>>
            /\ \A k \in 1..Len(sent'[r]) :
                 /\ sent'[r][k].roomId = r
                 /\ sent'[r][k].type \in {"agent_typing", "agent_progress", "agent", "system"}
            /\ last'.op \in {"agent_done", "agent_error"} => Len(sent'[r]) = 2
            /\ roomMessages' = [roomMessages EXCEPT ![r] = @ \o LoggedEvents(sent'[r], r)]]_vars

\* the sender has switched to the other room, where the second connection is too,
\* and the agent's answer has just been posted in the room of the mention, to nobody
C37_Witness ==
  /\ last.op = "agent_done"
  /\ LET d == dispatches[last.id]
         now == clients[d.ws].currentRoom
     IN /\ clients[d.ws].readyState = "OPEN"
        /\ now \in DOMAIN rooms
        /\ now /= d.roomId
        /\ \A x \in Conns : OpenIn(clients, x, now) /\ sent[x] = <<>>
        /\ sent[now] = <<>>
        /\ Len(sent[d.roomId]) = 2
        /\ roomMessages[d.roomId][Len(roomMessages[d.roomId])].type = "agent"

\* the sender has disconnected and the failure of its invocation has just been
\* announced to the member left in the room of the mention
C37_AfterDisconnect ==
  /\ last.op = "agent_error"
  /\ LET d == dispatches[last.id]
     IN /\ clients[d.ws].readyState = "CLOSED"
        /\ \E x \in Conns : OpenIn(clients, x, d.roomId) /\ Len(sent[x]) = 2

(***************************************************************************)
(* Claims about the ledger functions (SpecBusy, SpecLedger).               *)
(***************************************************************************)
\* C38: a room holds a poker session only if its mode is poker
C38_SessionOnlyInPokerRooms ==
  \A r \in DOMAIN rooms : rooms[r].pokerSession.active => rooms[r].mode = "poker"

\* in a poker room the first recordBuyIn does open the session
C38_PokerRoomOpensSession ==
  (last.op = "agent_done" /\ lastResult.fn = "recordBuyIn" /\ lastResult.roomId \in DOMAIN rooms) =>
    rooms[lastResult.roomId].pokerSession.active

\* number of directives of a response that call the named function
CallsOf(text, fn) ==
  LET actions == matchAll(text, 1)
  IN Cardinality({k \in 1..Len(actions) : actions[k][2] = fn})

\* the response callback has just run and its last helper call was a recordBuyIn
BoughtInNow ==
  /\ last.op = "agent_done"
  /\ lastResult.fn = "recordBuyIn"
  /\ lastResult.roomId \in DOMAIN rooms

\* C39: each recordBuyIn(player, amount) appends one buy-in, so a response adds as
\* many buy-ins as it has recordBuyIn directives; the entry appended by the last call
\* is (player, amount) and the number its confirmation shows after "Total pot: $" is
\* the sum of all buy-ins of the session, the new one included, whatever has been
\* cashed out
C39_BuyInAppendsAndTotals ==
  [][/\ \A inv \in inflight :
          (last'.op = "agent_done" /\ last'.id = inv.id) =>
            Len(rooms'[inv.roomId].pokerSession.buyIns)
              = Len(rooms[inv.roomId].pokerSession.buyIns) + CallsOf(ResponseOf(inv), "recordBuyIn")
     /\ BoughtInNow' =>
          LET session == rooms'[lastResult'.roomId].pokerSession
              text == lastResult'.value
              k == IndexOf(text, ". Total pot:")
          IN /\ session.active
             /\ session.buyIns[Len(session.buyIns)]
                  = [player |-> lastResult'.player, amount |-> lastResult'.amount]
             /\ k > 0
             /\ text[k + 1] = "$"
             /\ ReadNat(text, k + 2, -1) = SumAmounts(session.buyIns)]_vars

\* a buy-in has been recorded after an earlier buy-in and a cash-out: the pot total
\* it reports is larger than what the cash-out has left in the pot
C39_Witness ==
  /\ BoughtInNow
  /\ LET session == rooms[lastResult.roomId].pokerSession
     IN /\ Len(session.buyIns) = 2
        /\ session.cashOuts /= <<>>
        /\ SumAmounts(session.buyIns) > PotDifference(session)

(***************************************************************************)
(* Claims about the ledger summary (SpecSummary).                          *)
(***************************************************************************)
\* position of the first occurrence of a token after position i of a text, or 0
IndexAfter(text, token, i) ==
  IF \E j \in (i + 1)..Len(text) : text[j] = token
  THEN CHOOSE j \in (i + 1)..Len(text) :
         text[j] = token /\ \A l \in (i + 1)..(j - 1) : text[l] /= token
  ELSE 0

\* the response callback has just run and its last helper call was a getLedger on
\* an open session
LedgerShown ==
  /\ last.op = "agent_done"
  /\ lastResult.fn = "getLedger"
  /\ lastResult.roomId \in DOMAIN rooms
  /\ rooms[lastResult.roomId].pokerSession.active

\* the dollar amount written after position k of a text, or -1
DollarsAt(text, k) ==
  IF k > 0 /\ k + 1 <= Len(text) /\ text[k + 1] = "$" THEN ReadNat(text, k + 2, -1) ELSE -1

\* C40: the ledger summary shows after its first "Total:" the sum of the buy-ins and
\* after its second the sum of the cash-outs; with d = buy-ins minus cash-outs its
\* verdict is Balanced iff d = 0, Unbalanced with $d remaining in pot iff d > 0, and
\* Over by $|d| iff d < 0, and it carries exactly one verdict
C40_SummaryTotalsAndVerdict ==
  LedgerShown =>
    LET session == rooms[lastResult.roomId].pokerSession
        text == lastResult.value
        d == PotDifference(session)
        t1 == IndexOf(text, "Total:")
        t2 == IndexAfter(text, "Total:", t1)
        bal == IndexOf(text, "**Balanced**")
        rem == IndexOf(text, "**Unbalanced**")
        over == IndexOf(text, "**Over by")
    IN /\ t1 > 0 /\ t2 > 0
       /\ DollarsAt(text, t1) = SumAmounts(session.buyIns)
       /\ DollarsAt(text, t2) = SumAmounts(session.cashOuts)
       /\ bal > 0 <=> d = 0
       /\ rem > 0 <=> d > 0
       /\ over > 0 <=> d < 0
       /\ rem > 0 => DollarsAt(text, rem + 1) = d /\ IndexOf(text, "remaining in pot") > rem
       /\ over > 0 => DollarsAt(text, over) = 0 - d

\* the summary of a ledger whose cash-outs exceed its buy-ins by $50
C40_Witness ==
  /\ LedgerShown
  /\ PotDifference(rooms[lastResult.roomId].pokerSession) = 0 - 50
  /\ IndexOf(lastResult.value, "**Over by") > 0

\* the summaries of a balanced ledger and of a ledger with a remainder
C40_BalancedShown ==
  LedgerShown /\ PotDifference(rooms[lastResult.roomId].pokerSession) = 0

C40_RemainderShown ==
  LedgerShown /\ PotDifference(rooms[lastResult.roomId].pokerSession) > 0
====
